---- MODULE Spec2Model ----
(***************************************************************************)
(* A model of the trace-generation engine of the Algorithmic GlassBox      *)
(* Simulator: buildTrace (src/src/core/engine/buildTrace.ts) with its      *)
(* environment adapter, the binary min-heap, the heuristics, the why-not   *)
(* analysis and the path reconstruction.  One behaviour of the model is    *)
(* one invocation of buildTrace on an input drawn by Init; the actions     *)
(* are the steps of its main loop.                                         *)
(***************************************************************************)
EXTENDS Integers, Sequences, FiniteSets, TLC

VARIABLES
  env,           \* the Environment argument
  startKey,      \* the startKey argument
  goalKey,       \* the goalKey argument
  options,       \* the RunOptions argument
  visited,       \* const visited = new Set<string>()
  closed,        \* const closed = new Set<string>()
  cameFrom,      \* const cameFrom = new Map<string, string>()
  gScore,        \* const gScore = new Map<string, number>()
  steps,         \* const steps: StepSnapshot[]
  relaxations,   \* let relaxations
  peakFrontier,  \* let peakFrontier
  peakClosed,    \* let peakClosed
  queue,         \* const queue: FrontierItem[]
  stack,         \* const stack: FrontierItem[]
  heap,          \* the arr field of const heap = new MinHeap<FrontierItem>()
  iterations,    \* let iterations
  selected,      \* let selected (the item of the running iteration)
  nbIdx,         \* position of the for-loop over neighborList (1-based)
  pc,            \* position of the invocation in buildTrace
  trace,         \* the returned Trace (found, path, metrics)
  primary,       \* runOnce: the trace of the primary run, once it is kept
  ui,            \* the SimulatorState of App (useReducer)
  edits,         \* how many settings the user has changed since the App was mounted
  client         \* a user of a MinHeap: what it pushed and what pop gave it

vars == <<env, startKey, goalKey, options, visited, closed, cameFrom, gScore,
          steps, relaxations, peakFrontier, peakClosed, queue, stack, heap,
          iterations, selected, nbIdx, pc, trace, primary, ui, edits, client>>

(***************************************************************************)
(* Values of the language the code is written in.                          *)
(***************************************************************************)
\* null, for the fields of type string | null
NULL == "null"

\* Math.max
Max(a, b) == IF a >= b THEN a ELSE b

\* Math.min
Min(a, b) == IF a <= b THEN a ELSE b

\* Math.abs
Abs(a) == IF a < 0 THEN -a ELSE a

\* Math.sqrt on the integers the model computes with: the exact root of a
\* perfect square.  Init draws only inputs whose distances are perfect
\* squares, on which the floating-point root is this integer.
RECURSIVE SqrtFrom(_, _)
SqrtFrom(n, r) == IF (r + 1) * (r + 1) > n THEN r ELSE SqrtFrom(n, r + 1)

Sqrt(n) == SqrtFrom(n, 0)

IsPerfectSquare(n) == Sqrt(n) * Sqrt(n) = n

\* Map.get(k) ?? d
GetOr(map, k, d) == IF k \in DOMAIN map THEN map[k] ELSE d

\* Map.set(k, v)
MapSet(map, k, v) == [x \in DOMAIN map \cup {k} |-> IF x = k THEN v ELSE map[x]]

\* item.field ?? d, for the optional fields of a FrontierItem
FieldOr(item, fld, d) == IF fld \in DOMAIN item THEN item[fld] ELSE d

\* the elements of an array
Range(s) == {s[i] : i \in 1..Len(s)}

(***************************************************************************)
(* src/src/core/grid.ts                                                    *)
(***************************************************************************)
\* keyOf: `${c.x},${c.y}`
keyOf(c) == ToString(c.x) \o "," \o ToString(c.y)

\* The coordinates whose keys the model parses (grids up to 5 x 5 cells).
ParsedCoords == {[x |-> i, y |-> j] : i \in 0..4, j \in 0..4}

\* coordOf: key.split(","), Number(xs), Number(ys); the inverse of keyOf
coordOf(key) == CHOOSE c \in ParsedCoords : keyOf(c) = key

(***************************************************************************)
(* src/unnamed/part_004 (core/heuristics.ts)                               *)
(***************************************************************************)
manhattan(a, b) == Abs(a.x - b.x) + Abs(a.y - b.y)

euclidean(a, b) == Sqrt((a.x - b.x) * (a.x - b.x) + (a.y - b.y) * (a.y - b.y))

\* heuristicFn(id)(a, b); an unknown id falls back to manhattan
heuristicFn(id, a, b) == IF id = "euclidean" THEN euclidean(a, b) ELSE manhattan(a, b)

(***************************************************************************)
(* src/src/core/structures/MinHeap.ts; arr is a 1-based sequence, the     *)
(* indices i, p, l, r below are the code's 0-based ones.                   *)
(***************************************************************************)
Swap(arr, i, j) ==
  [arr EXCEPT ![i + 1] = arr[j + 1], ![j + 1] = arr[i + 1]]

\* a bubbleUp test that keeps the larger priority on top
BubbleUpStopsReversed(parentPriority, nodePriority) == parentPriority >= nodePriority

\* the test that stops bubbleUp: parent.priority <= node.priority
BubbleUpStops(parentPriority, nodePriority) == parentPriority <= nodePriority

RECURSIVE bubbleUp(_, _)
bubbleUp(arr, i) ==
  IF i > 0
  THEN LET p == (i - 1) \div 2
       IN IF BubbleUpStops(arr[p + 1].priority, arr[i + 1].priority)
          THEN arr
          ELSE bubbleUp(Swap(arr, p, i), p)
  ELSE arr

RECURSIVE bubbleDown(_, _)
bubbleDown(arr, i) ==
  LET n == Len(arr)
      l == i * 2 + 1
      r == i * 2 + 2
      s1 == IF l < n /\ arr[l + 1].priority < arr[i + 1].priority THEN l ELSE i
      smallest == IF r < n /\ arr[r + 1].priority < arr[s1 + 1].priority THEN r ELSE s1
  IN IF smallest = i THEN arr ELSE bubbleDown(Swap(arr, i, smallest), smallest)

\* MinHeap.push
HeapPush(arr, node) == bubbleUp(Append(arr, node), Len(arr))

\* a pop that drops the last entry and leaves the root where it is
HeapPopRestKeepsRoot(arr) == SubSeq(arr, 1, Len(arr) - 1)

\* a pop that moves the last entry to the root and leaves it there
HeapPopRestUnsifted(arr) ==
  LET last == arr[Len(arr)]
      shrunk == SubSeq(arr, 1, Len(arr) - 1)
  IN IF Len(shrunk) > 0 THEN [shrunk EXCEPT ![1] = last] ELSE shrunk

\* MinHeap.pop on a non-empty heap: the array left behind
HeapPopRest(arr) ==
  LET last == arr[Len(arr)]
      shrunk == SubSeq(arr, 1, Len(arr) - 1)
  IN IF Len(shrunk) > 0
     THEN bubbleDown([shrunk EXCEPT ![1] = last], 0)
     ELSE shrunk

\* what MinHeap.pop returns on an empty heap
NoNode == [id |-> NULL]

\* MinHeap.pop: the entry returned (NoNode for null) and the array left behind
HeapPop(arr) ==
  IF Len(arr) = 0
  THEN [top |-> NoNode, rest |-> arr]
  ELSE [top |-> arr[1], rest |-> HeapPopRest(arr)]

\* MinHeap.toArray().map((n) => n.value)
HeapValues(arr) == [i \in 1..Len(arr) |-> arr[i].value]

(***************************************************************************)
(* src/src/core/engine/buildTrace.ts: the pure helpers                     *)
(***************************************************************************)
\* Number.POSITIVE_INFINITY, the value compareWhyNot gives a missing metric
POSITIVE_INFINITY == 1000000000

frontierKindFor(algorithm) ==
  CASE algorithm = "bfs" -> "queue"
    [] algorithm = "dfs" -> "stack"
    [] OTHER -> "minheap"

\* an f that leaves the weight out: f = g + h
AStarFUnweighted(g, h, w) == g + h

\* the priority makeItem gives an A* item: f = g + w * h
AStarF(g, h, w) == g + w * h

makeItem(at, key, algorithm, g, h, depth, w) ==
  IF algorithm = "bfs" \/ algorithm = "dfs"
  THEN [key |-> key, at |-> at, depth |-> depth]
  ELSE IF algorithm = "dijkstra"
       THEN [key |-> key, at |-> at, g |-> g, priority |-> g]
       ELSE [key |-> key, at |-> at, g |-> g, h |-> h,
             f |-> AStarF(g, h, w), priority |-> AStarF(g, h, w)]

\* the value compareWhyNot reads off an item for a metric
MetricValue(item, metric) ==
  IF metric = "depth"
  THEN FieldOr(item, "depth", 0)
  ELSE IF metric = "g"
       THEN FieldOr(item, "g", POSITIVE_INFINITY)
       ELSE FieldOr(item, "f", POSITIVE_INFINITY)

\* Array.prototype.sort((a, b) => a.candidateValue - b.candidateValue): a
\* stable sort, here by insertion from the left
RECURSIVE InsertByValue(_, _)
InsertByValue(sorted, c) ==
  IF Len(sorted) = 0
  THEN <<c>>
  ELSE IF sorted[Len(sorted)].candidateValue <= c.candidateValue
       THEN Append(sorted, c)
       ELSE Append(InsertByValue(SubSeq(sorted, 1, Len(sorted) - 1), c),
                   sorted[Len(sorted)])

RECURSIVE SortByValue(_, _)
SortByValue(s, n) ==
  IF n = 0 THEN <<>> ELSE InsertByValue(SortByValue(s, n - 1), s[n])

\* the filter compareWhyNot applies after the slice: exact ties are dropped
WhyNotKeeps(candidateValue, chosenValue) == candidateValue # chosenValue

compareWhyNot(frontier, chosen, metric) ==
  LET chosenValue == MetricValue(chosen, metric)
      NotChosen(x) == x.key # chosen.key
      others == SelectSeq(frontier, NotChosen)
      valued == [i \in 1..Len(others) |->
                   [candidate |-> others[i],
                    candidateValue |-> MetricValue(others[i], metric)]]
      sorted == SortByValue(valued, Len(valued))
      sliced == SubSeq(sorted, 1, Min(4, Len(sorted)))
      Differs(c) == WhyNotKeeps(c.candidateValue, chosenValue)
      kept == SelectSeq(sliced, Differs)
  IN [i \in 1..Len(kept) |->
        [candidate |-> kept[i].candidate,
         chosen |-> chosen,
         metric |-> metric,
         candidateValue |-> kept[i].candidateValue,
         chosenValue |-> chosenValue]]

(***************************************************************************)
(* The environment adapter of buildTrace                                   *)
(***************************************************************************)
\* grid neighbours that are kept whether or not they are walls
GridNeighborsThroughWalls(grid, key) ==
  LET c == coordOf(key)
      candidates == << [x |-> c.x + 1, y |-> c.y],
                       [x |-> c.x - 1, y |-> c.y],
                       [x |-> c.x, y |-> c.y + 1],
                       [x |-> c.x, y |-> c.y - 1] >>
      Kept(nb) == ~(nb.x < 0 \/ nb.y < 0 \/ nb.x >= grid.width \/ nb.y >= grid.height)
      kept == SelectSeq(candidates, Kept)
  IN [i \in 1..Len(kept) |-> [key |-> keyOf(kept[i]), cost |-> 1]]

\* neighbors of the grid adapter: the four candidates in the code's order,
\* without those out of bounds and the walls, each at cost 1
GridNeighbors(grid, key) ==
  LET c == coordOf(key)
      candidates == << [x |-> c.x + 1, y |-> c.y],
                       [x |-> c.x - 1, y |-> c.y],
                       [x |-> c.x, y |-> c.y + 1],
                       [x |-> c.x, y |-> c.y - 1] >>
      Kept(nb) == /\ ~(nb.x < 0 \/ nb.y < 0 \/ nb.x >= grid.width \/ nb.y >= grid.height)
                  /\ keyOf(nb) \notin grid.walls
      kept == SelectSeq(candidates, Kept)
  IN [i \in 1..Len(kept) |-> [key |-> keyOf(kept[i]), cost |-> 1]]

\* an adjacency that never pushes an edge under its to
AdjOfForwardOnly(edges, directed, k) ==
  LET Under(e) == e.from = k
      mine == SelectSeq(edges, Under)
  IN [i \in 1..Len(mine) |-> [key |-> mine[i].to, cost |-> mine[i].cost]]

\* adj.get(k) of the graph adapter: the edges are read in list order, each
\* pushed under its from and, in an undirected graph, under its to as well.
\* Entry 2i-1 below is the push of edge i under its from, entry 2i the one
\* under its to.
AdjOf(edges, directed, k) ==
  LET pushes == [j \in 1..(2 * Len(edges)) |->
                   LET e == edges[(j + 1) \div 2]
                   IN IF j % 2 = 1
                      THEN [under |-> e.from, key |-> e.to, cost |-> e.cost,
                            done |-> TRUE]
                      ELSE [under |-> e.to, key |-> e.from, cost |-> e.cost,
                            done |-> ~directed]]
      Under(p) == p.done /\ p.under = k
      mine == SelectSeq(pushes, Under)
  IN [i \in 1..Len(mine) |-> [key |-> mine[i].key, cost |-> mine[i].cost]]

\* nodeAt.get(k) ?? { x: 0, y: 0 }; of two nodes with one id the Map keeps
\* the later
NodeAt(nodes, k) ==
  LET idx == {i \in 1..Len(nodes) : nodes[i].id = k}
  IN IF idx = {}
     THEN [x |-> 0, y |-> 0]
     ELSE nodes[CHOOSE i \in idx : \A j \in idx : j <= i].at

\* adapter.coordOfKey
coordOfKey(e, k) == IF e.kind = "grid" THEN coordOf(k) ELSE NodeAt(e.graph.nodes, k)

\* adapter.neighbors
neighbors(e, k) ==
  IF e.kind = "grid"
  THEN GridNeighbors(e.grid, k)
  ELSE AdjOf(e.graph.edges, e.graph.directed, k)

\* adapter.edgeCostMode
edgeCostMode(e) == IF e.kind = "grid" THEN "unit" ELSE "weighted"

\* stepCost of one neighbour
StepCost(e, algorithm, nb) ==
  IF algorithm = "bfs" \/ algorithm = "dfs"
  THEN 1
  ELSE IF edgeCostMode(e) = "weighted" THEN nb.cost ELSE 1

\* sizeBasis
SizeBasis(e) ==
  IF e.kind = "grid" THEN e.grid.width * e.grid.height ELSE Len(e.graph.nodes)

\* minIterations
MinIterations == 100

\* the multiplier and the ceiling of maxIterations
IterationsPerNode == 20

IterationsCeiling == 10000

\* a cap of one iteration per cell or node
MaxIterationsPerKey(sizeBasis) == sizeBasis

\* maxIterations
MaxIterations(sizeBasis) ==
  Max(MinIterations, Min(sizeBasis * IterationsPerNode, IterationsCeiling))

\* a walk that forgets out.reverse(): the goal comes first
RECURSIVE WalkBackUnreversed(_, _, _)
WalkBackUnreversed(cameFromMap, startK, cur) ==
  IF cur = startK \/ cur \notin DOMAIN cameFromMap
  THEN <<cur>>
  ELSE <<cur>> \o WalkBackUnreversed(cameFromMap, startK, cameFromMap[cur])

\* the walk of reconstructPathCoords from cur back to startK, already
\* reversed: it stops at startK or at a key without a parent link
RECURSIVE WalkBack(_, _, _)
WalkBack(cameFromMap, startK, cur) ==
  IF cur = startK \/ cur \notin DOMAIN cameFromMap
  THEN <<cur>>
  ELSE Append(WalkBack(cameFromMap, startK, cameFromMap[cur]), cur)

\* a reconstruction without the test for startK === goalK
reconstructPathCoordsNoShortcut(e, cameFromMap, startK, goalK) ==
  IF goalK \notin DOMAIN cameFromMap
  THEN <<>>
  ELSE LET out == WalkBack(cameFromMap, startK, goalK)
       IN [i \in 1..Len(out) |-> coordOfKey(e, out[i])]

reconstructPathCoords(e, cameFromMap, startK, goalK) ==
  IF startK = goalK
  THEN <<coordOfKey(e, startK)>>
  ELSE IF goalK \notin DOMAIN cameFromMap
       THEN <<>>
       ELSE LET out == WalkBack(cameFromMap, startK, goalK)
            IN [i \in 1..Len(out) |-> coordOfKey(e, out[i])]

\* frontierToArray over the three containers
FrontierOf(fk, q, s, h) ==
  IF fk = "queue" THEN q ELSE IF fk = "stack" THEN s ELSE HeapValues(h)

\* the snapshot pushStep builds: copies of the live sets and maps, then the
\* fields of partial
Snapshot(index, fk, frontier, vis, cl, cf, gs, partial) ==
  partial @@ [index |-> index,
              frontierKind |-> fk,
              frontier |-> frontier,
              visited |-> vis,
              closed |-> cl,
              cameFrom |-> cf,
              gScore |-> gs]

\* a pushStep that stores the live sets and maps themselves, not copies:
\* every snapshot emitted so far shows what the newest one shows
PushStepAliased(st, fk, frontier, vis, cl, cf, gs, partial) ==
  Append([i \in 1..Len(st) |->
            [st[i] EXCEPT !.visited = vis, !.closed = cl,
                          !.cameFrom = cf, !.gScore = gs]],
         Snapshot(Len(st), fk, frontier, vis, cl, cf, gs, partial))

\* steps.push(step)
PushStep(st, fk, frontier, vis, cl, cf, gs, partial) ==
  Append(st, Snapshot(Len(st), fk, frontier, vis, cl, cf, gs, partial))

(***************************************************************************)
(* buildTrace: the state machine                                           *)
(***************************************************************************)
\* new Map()
EmptyMap == [k \in {} |-> NULL]

\* the value of selected outside an iteration
NoItem == [key |-> NULL]

\* the value of trace before buildTrace returns
NoTrace == [found |-> FALSE, path |-> <<>>, metrics |-> [runtimeSteps |-> 0]]

fk == frontierKindFor(options.algorithm)

frontierToArray == FrontierOf(fk, queue, stack, heap)

\* The state buildTrace is in after its seed on (e, s, g, o): the start is
\* visited at cost 0, its item is in the live container and the "init"
\* snapshot is emitted.
SeedValues(e, s, g, o) ==
  LET k == frontierKindFor(o.algorithm)
      start == coordOfKey(e, s)
      goal == coordOfKey(e, g)
      startItem == makeItem(start, s, o.algorithm, 0,
                            heuristicFn(o.heuristic, start, goal), 0,
                            o.heuristicWeight)
      q0 == IF k = "queue" THEN <<startItem>> ELSE <<>>
      s0 == IF k = "stack" THEN <<startItem>> ELSE <<>>
      h0 == IF k = "minheap"
            THEN HeapPush(<<>>, [id |-> s, value |-> startItem,
                                 priority |-> FieldOr(startItem, "priority", 0)])
            ELSE <<>>
      f0 == FrontierOf(k, q0, s0, h0)
  IN [visited |-> {s},
      closed |-> {},
      cameFrom |-> EmptyMap,
      gScore |-> MapSet(EmptyMap, s, 0),
      queue |-> q0,
      stack |-> s0,
      heap |-> h0,
      steps |-> PushStep(<<>>, k, f0, {s}, {}, EmptyMap, MapSet(EmptyMap, s, 0),
                         [phase |-> "init", currentKey |-> NULL]),
      peakFrontier |-> Max(0, Len(f0))]

\* The seed of buildTrace on (e, s, g, o).
Seed(e, s, g, o) ==
  LET v == SeedValues(e, s, g, o)
  IN /\ env = e
     /\ startKey = s
     /\ goalKey = g
     /\ options = o
     /\ visited = v.visited
     /\ closed = v.closed
     /\ cameFrom = v.cameFrom
     /\ gScore = v.gScore
     /\ queue = v.queue
     /\ stack = v.stack
     /\ heap = v.heap
     /\ steps = v.steps
     /\ relaxations = 0
     /\ peakFrontier = v.peakFrontier
     /\ peakClosed = 0
     /\ iterations = 0
     /\ selected = NoItem
     /\ nbIdx = 0
     /\ pc = "loop"
     /\ trace = NoTrace

\* the test of the stale-entry loop: a popped entry is dropped when its key
\* is closed or it carries a g above the best-known g of its key
IsStale(popped, cl, gs) ==
  \/ popped.key \in cl
  \/ /\ popped.key \in DOMAIN gs
     /\ "g" \in DOMAIN popped
     /\ popped.g > gs[popped.key]

\* the while (true) loop over heap.pop(): the first entry that is not stale,
\* and the heap left behind
RECURSIVE PopFresh(_, _, _)
PopFresh(arr, cl, gs) ==
  IF Len(arr) = 0
  THEN [has |-> FALSE, item |-> NoItem, heap |-> arr]
  ELSE LET popped == arr[1].value
           rest == HeapPopRest(arr)
       IN IF IsStale(popped, cl, gs)
          THEN PopFresh(rest, cl, gs)
          ELSE [has |-> TRUE, item |-> popped, heap |-> rest]

\* a queue.shift() that takes the last element, as stack.pop() does
QueueShiftLast(q) ==
  IF Len(q) = 0
  THEN [has |-> FALSE, item |-> [key |-> NULL], rest |-> q]
  ELSE [has |-> TRUE, item |-> q[Len(q)], rest |-> SubSeq(q, 1, Len(q) - 1)]

\* queue.shift() ?? null, with the queue left behind
QueueShift(q) ==
  IF Len(q) = 0
  THEN [has |-> FALSE, item |-> NoItem, rest |-> q]
  ELSE [has |-> TRUE, item |-> Head(q), rest |-> Tail(q)]

\* a stack.pop() that takes the first element, as queue.shift() does
StackPopFirst(s) ==
  IF Len(s) = 0
  THEN [has |-> FALSE, item |-> [key |-> NULL], rest |-> s]
  ELSE [has |-> TRUE, item |-> Head(s), rest |-> Tail(s)]

\* stack.pop() ?? null, with the stack left behind
StackPop(s) ==
  IF Len(s) = 0
  THEN [has |-> FALSE, item |-> NoItem, rest |-> s]
  ELSE [has |-> TRUE, item |-> s[Len(s)], rest |-> SubSeq(s, 1, Len(s) - 1)]

\* the selection reason of an item
SelectionReasonOf(algorithm, item) ==
  CASE algorithm = "bfs" -> [kind |-> "fifo"]
    [] algorithm = "dfs" -> [kind |-> "lifo"]
    [] algorithm = "dijkstra" ->
         [kind |-> "min", metric |-> "g", value |-> FieldOr(item, "g", 0)]
    [] OTHER ->
         [kind |-> "min", metric |-> "f",
          value |-> FieldOr(item, "f", FieldOr(item, "priority", 0))]

\* an expansion that starts the closed set over with each key
CloseKeyOnly(cl, key) == {key}

\* an expansion that forgets closed.add(key)
CloseKeyForgotten(cl, key) == cl

\* closed.add(key)
CloseKey(cl, key) == cl \cup {key}

\* a goal test that falls through to the expansion
AfterFoundExpands == "expand"

\* where the run goes after the "found" snapshot: the break out of the loop
AfterFound == "done"

\* a main loop without the cap test
CapHitNever(its, e) == FALSE

\* a cap test that lets one more iteration start
CapHitLate(its, e) == its > MaxIterations(SizeBasis(e)) + 1

\* the test of the iteration cap
CapHit(its, e) == its > MaxIterations(SizeBasis(e))

\* a goal test that never succeeds
IsGoalNever(item, g) == FALSE

\* the goal test on the selected item
IsGoal(item, g) == item.key = g

WeightedWarning ==
  "This A* run uses a weighted heuristic (>1), which can be faster but may produce a suboptimal path."

CapWarning == "Stopped early to avoid an infinite/very long run (iteration cap hit)."

\* One pass over the head of the main loop: the loop test, the iteration
\* cap, the selection, the "select" snapshot and the goal test.
Select ==
  /\ pc = "loop"
  /\ UNCHANGED <<ui, edits, client, primary, env, startKey, goalKey, options, visited, closed, cameFrom,
                 gScore, relaxations, nbIdx, trace>>
  /\ IF Len(frontierToArray) = 0
     THEN /\ pc' = "done"
          /\ UNCHANGED <<steps, peakFrontier, peakClosed, queue, stack, heap,
                         iterations, selected>>
     ELSE /\ iterations' = iterations + 1
          /\ IF CapHit(iterations + 1, env)
             THEN /\ steps' = PushStep(steps, fk, frontierToArray, visited, closed,
                                       cameFrom, gScore,
                                       [phase |-> "exhausted", currentKey |-> NULL,
                                        warnings |-> <<CapWarning>>])
                  /\ peakFrontier' = Max(peakFrontier, Len(frontierToArray))
                  /\ peakClosed' = Max(peakClosed, Cardinality(closed))
                  /\ pc' = "done"
                  /\ UNCHANGED <<queue, stack, heap, selected>>
             ELSE LET qs == QueueShift(queue)
                      sp == StackPop(stack)
                      hp == PopFresh(heap, closed, gScore)
                      has == IF fk = "queue" THEN qs.has
                             ELSE IF fk = "stack" THEN sp.has ELSE hp.has
                      item == IF fk = "queue" THEN qs.item
                              ELSE IF fk = "stack" THEN sp.item ELSE hp.item
                      q1 == IF fk = "queue" THEN qs.rest ELSE queue
                      s1 == IF fk = "stack" THEN sp.rest ELSE stack
                      h1 == IF fk = "minheap" THEN hp.heap ELSE heap
                      frontierNow == FrontierOf(fk, q1, s1, h1)
                      reason == SelectionReasonOf(options.algorithm, item)
                      base == [phase |-> "select", currentKey |-> item.key,
                               current |-> item.at, selected |-> item,
                               selectionReason |-> reason]
                      partial == IF fk = "minheap"
                                 THEN base @@
                                      [whyNot |->
                                         compareWhyNot(<<item>> \o frontierNow, item,
                                           IF options.algorithm = "dijkstra"
                                           THEN "g" ELSE "f")]
                                 ELSE base
                      st1 == PushStep(steps, fk, frontierNow, visited, closed,
                                      cameFrom, gScore, partial)
                      fbase == [phase |-> "found", currentKey |-> item.key,
                                current |-> item.at, selected |-> item,
                                selectionReason |-> [kind |-> "goal"],
                                path |-> reconstructPathCoords(env, cameFrom,
                                                               startKey, goalKey)]
                      fpartial == IF options.algorithm = "astar"
                                     /\ options.heuristicWeight > 1
                                  THEN fbase @@ [warnings |-> <<WeightedWarning>>]
                                  ELSE fbase
                  IN /\ queue' = q1
                     /\ stack' = s1
                     /\ heap' = h1
                     /\ IF ~has
                        THEN /\ pc' = "done"
                             /\ UNCHANGED <<steps, peakFrontier, peakClosed, selected>>
                        ELSE IF item.key \in closed
                        THEN /\ pc' = "loop"
                             /\ UNCHANGED <<steps, peakFrontier, peakClosed, selected>>
                        ELSE /\ selected' = item
                             /\ peakFrontier' = Max(peakFrontier, Len(frontierNow))
                             /\ peakClosed' = Max(peakClosed, Cardinality(closed))
                             /\ IF IsGoal(item, goalKey)
                                THEN /\ steps' = PushStep(st1, fk, frontierNow, visited,
                                                         closed, cameFrom, gScore,
                                                         fpartial)
                                     /\ pc' = AfterFound
                                ELSE /\ steps' = st1
                                     /\ pc' = "expand"

\* the anomaly warnings of an expansion, each at most once (addWarning);
\* the texts are the source's, with its dashes and quotation marks in ASCII
BfsWarning(e) ==
  IF e.kind = "grid"
  THEN "BFS frontier is growing large: BFS can become memory-intensive on wide open maps."
  ELSE "BFS frontier is growing large: BFS can become memory-intensive on wide/branchy graphs."

DfsWarning == "DFS is going very deep: DFS can get stuck exploring long branches before finding a good route."

AStarWarning == "Weighted A*: heuristic is amplified, may trade optimality for speed."

\* x > totalNodes * 0.35, in twentieths
ExceedsShare(x, totalNodes) == 20 * x > 7 * totalNodes

\* an expansion that computes no warning
ExpandWarningsNone(o, e, frontierSize, item) == <<>>

ExpandWarnings(o, e, frontierSize, item) ==
  (IF o.algorithm = "bfs" /\ ExceedsShare(frontierSize, SizeBasis(e))
   THEN <<BfsWarning(e)>> ELSE <<>>)
  \o (IF o.algorithm = "dfs" /\ ExceedsShare(FieldOr(item, "depth", 0), SizeBasis(e))
      THEN <<DfsWarning>> ELSE <<>>)
  \o (IF o.algorithm = "astar" /\ o.heuristicWeight > 1
      THEN <<AStarWarning>> ELSE <<>>)

\* The expansion of the selected item: it is closed, the "expand" snapshot
\* is emitted, and once more with the warnings if there are any.
Expand ==
  /\ pc = "expand"
  /\ UNCHANGED <<ui, edits, client, primary, env, startKey, goalKey, options, visited, cameFrom, gScore,
                 relaxations, queue, stack, heap, iterations, selected, trace>>
  /\ LET cl1 == CloseKey(closed, selected.key)
         base == [phase |-> "expand", currentKey |-> selected.key,
                  current |-> selected.at, selected |-> selected,
                  selectionReason |-> SelectionReasonOf(options.algorithm, selected)]
         st1 == PushStep(steps, fk, frontierToArray, visited, cl1, cameFrom,
                         gScore, base)
         warnings == ExpandWarnings(options, env, Len(frontierToArray), selected)
         st2 == IF Len(warnings) > 0
                THEN PushStep(st1, fk, frontierToArray, visited, cl1, cameFrom,
                              gScore, base @@ [warnings |-> warnings])
                ELSE st1
     IN /\ closed' = cl1
        /\ steps' = st2
        /\ peakFrontier' = Max(peakFrontier, Len(frontierToArray))
        /\ peakClosed' = Max(peakClosed, Cardinality(cl1))
        /\ nbIdx' = 1
        /\ pc' = IF Len(neighbors(env, selected.key)) = 0 THEN "loop" ELSE "neighbors"

\* a relaxation test that takes every tentative cost for an improvement
ImprovedAlways(hasOld, oldG, tentativeG) == TRUE

\* a relaxation test that never lowers a recorded cost
ImprovedOnlyOnDiscovery(hasOld, oldG, tentativeG) == ~hasOld

\* a relaxation test that also takes an equal cost for an improvement
ImprovedOrEqual(hasOld, oldG, tentativeG) == ~hasOld \/ tentativeG <= oldG

\* the test of a cost-aware relaxation: no prior cost, or a strictly lower one
Improved(hasOld, oldG, tentativeG) == ~hasOld \/ tentativeG < oldG

\* a neighbour loop without the test for closed neighbours
SkipsNeighborNever(nbKey, cl) == FALSE

\* the test that skips a neighbour before any relaxation
SkipsNeighbor(nbKey, cl) == nbKey \in cl

\* an unweighted run without the test for visited neighbours
AlreadyVisitedNever(nbKey, vis) == FALSE

\* the test that skips a neighbour of an unweighted run
AlreadyVisited(nbKey, vis) == nbKey \in vis

\* the RelaxationEvent; oldG: null is the event without an oldG field
RelaxationEvent(from, to, hasOld, oldG, newG) ==
  IF hasOld
  THEN [from |-> from, to |-> to, oldG |-> oldG, newG |-> newG, improved |-> TRUE]
  ELSE [from |-> from, to |-> to, newG |-> newG, improved |-> TRUE]

\* One pass of the for-loop over neighborList, on its element nbIdx.
Neighbor ==
  /\ pc = "neighbors"
  /\ UNCHANGED <<ui, edits, client, primary, env, startKey, goalKey, options, closed, iterations, selected,
                 trace>>
  /\ LET nbs == neighbors(env, selected.key)
         nb == nbs[nbIdx]
         nbKey == nb.key
         curG == GetOr(gScore, selected.key, 0)
         curDepth == FieldOr(selected, "depth", 0)
         nbCoord == coordOfKey(env, nbKey)
         stepCost == StepCost(env, options.algorithm, nb)
         unweighted == options.algorithm = "bfs" \/ options.algorithm = "dfs"
         common == [currentKey |-> selected.key, current |-> selected.at,
                    selected |-> selected,
                    selectionReason |-> SelectionReasonOf(options.algorithm, selected)]
         \* BFS / DFS
         vis1 == visited \cup {nbKey}
         cf1 == MapSet(cameFrom, nbKey, selected.key)
         uItem == makeItem(nbCoord, nbKey, options.algorithm, curG + stepCost, 0,
                           curDepth + 1, options.heuristicWeight)
         uq == IF fk = "queue" THEN Append(queue, uItem) ELSE queue
         us == IF fk = "queue" THEN stack ELSE Append(stack, uItem)
         ust1 == PushStep(steps, fk, frontierToArray, vis1, closed, cf1, gScore,
                   common @@ [phase |-> "enqueue",
                              relaxation |-> RelaxationEvent(selected.key, nbKey,
                                               FALSE, 0, curG + stepCost)])
         ust2 == PushStep(ust1, fk, FrontierOf(fk, uq, us, heap), vis1, closed,
                          cf1, gScore, common @@ [phase |-> "enqueue"])
         \* Dijkstra / A*
         tentativeG == curG + stepCost
         hasOld == nbKey \in DOMAIN gScore
         oldG == GetOr(gScore, nbKey, 0)
         gs1 == MapSet(gScore, nbKey, tentativeG)
         h == IF options.algorithm = "astar"
              THEN heuristicFn(options.heuristic, nbCoord, coordOfKey(env, goalKey))
              ELSE 0
         wItem == makeItem(nbCoord, nbKey, options.algorithm, tentativeG, h,
                           curDepth + 1, options.heuristicWeight)
         wh == HeapPush(heap, [id |-> nbKey, value |-> wItem,
                               priority |-> FieldOr(wItem, "priority", tentativeG)])
         wst1 == PushStep(steps, fk, frontierToArray, vis1, closed, cf1, gs1,
                   common @@ [phase |-> "relax",
                              relaxation |-> RelaxationEvent(selected.key, nbKey,
                                               hasOld, oldG, tentativeG)])
         wst2 == PushStep(wst1, fk, HeapValues(wh), vis1, closed, cf1, gs1,
                          common @@ [phase |-> "enqueue"])
     IN /\ nbIdx' = nbIdx + 1
        /\ pc' = IF nbIdx >= Len(nbs) THEN "loop" ELSE "neighbors"
        /\ IF SkipsNeighbor(nbKey, closed)
           THEN UNCHANGED <<visited, cameFrom, gScore, steps, relaxations,
                            peakFrontier, peakClosed, queue, stack, heap>>
           ELSE IF unweighted
           THEN IF AlreadyVisited(nbKey, visited)
                THEN UNCHANGED <<visited, cameFrom, gScore, steps, relaxations,
                                 peakFrontier, peakClosed, queue, stack, heap>>
                ELSE /\ visited' = vis1
                     /\ cameFrom' = cf1
                     /\ queue' = uq
                     /\ stack' = us
                     /\ steps' = ust2
                     /\ peakFrontier' = Max(peakFrontier, Len(frontierToArray) + 1)
                     /\ peakClosed' = Max(peakClosed, Cardinality(closed))
                     /\ UNCHANGED <<gScore, relaxations, heap>>
           ELSE IF ~Improved(hasOld, oldG, tentativeG)
                THEN UNCHANGED <<visited, cameFrom, gScore, steps, relaxations,
                                 peakFrontier, peakClosed, queue, stack, heap>>
                ELSE /\ cameFrom' = cf1
                     /\ gScore' = gs1
                     /\ visited' = vis1
                     /\ relaxations' = relaxations + 1
                     /\ heap' = wh
                     /\ steps' = wst2
                     /\ peakFrontier' = Max(peakFrontier, Len(wh))
                     /\ peakClosed' = Max(peakClosed, Cardinality(closed))
                     /\ UNCHANGED <<queue, stack>>

\* steps.some((s) => s.phase === "found")
FoundIn(st) == \E i \in 1..Len(st) : st[i].phase = "found"

\* the path of the last "found" snapshot, [] when there is none
PathIn(st) ==
  IF FoundIn(st)
  THEN st[CHOOSE i \in 1..Len(st) :
            /\ st[i].phase = "found"
            /\ \A j \in 1..Len(st) : st[j].phase = "found" => j <= i].path
  ELSE <<>>

\* an explored metric that counts the key selected last as well
ExploredWithSelected(cl) == Cardinality(cl) + 1

\* the explored metric
Explored(cl) == Cardinality(cl)

\* The code after the main loop: the found flag, the path and the metrics
\* of the returned Trace.
Finish ==
  /\ pc = "done"
  /\ pc' = "returned"
  /\ trace' = [found |-> FoundIn(steps),
               path |-> PathIn(steps),
               metrics |-> [explored |-> Explored(closed),
                            relaxations |-> relaxations,
                            peakFrontier |-> peakFrontier,
                            peakClosed |-> peakClosed,
                            runtimeSteps |-> Len(steps)]]
  /\ UNCHANGED <<ui, edits, client, primary, env, startKey, goalKey, options, visited, closed, cameFrom,
                 gScore, steps, relaxations, peakFrontier, peakClosed, queue,
                 stack, heap, iterations, selected, nbIdx>>

Next == Select \/ Expand \/ Neighbor \/ Finish

\* the value of primary while runOnce keeps no trace
NoRun == [kept |-> FALSE]

\* the value of ui where no App is mounted
NoUi == [mounted |-> FALSE]

\* the value of client where the heap is buildTrace's own
NoClient == [last |-> "none"]

\* buildTrace is called on its own: no trace is kept, no App is mounted and
\* the heap has no other user
CalledAlone == primary = NoRun /\ ui = NoUi /\ edits = 0 /\ client = NoClient

\* runOnce with compareOn: the trace of the primary run is kept and
\* buildTrace is called again on the same environment, start, goal,
\* heuristic and weight with the comparison algorithm a.
Compare ==
  /\ pc = "returned"
  /\ ~primary.kept
  /\ \E a \in {"bfs", "dfs", "dijkstra", "astar"} :
       LET o == [options EXCEPT !.algorithm = a]
           v == SeedValues(env, startKey, goalKey, o)
       IN /\ primary' = [kept |-> TRUE, options |-> options, steps |-> steps,
                         found |-> trace.found, path |-> trace.path]
          /\ options' = o
          /\ visited' = v.visited
          /\ closed' = v.closed
          /\ cameFrom' = v.cameFrom
          /\ gScore' = v.gScore
          /\ queue' = v.queue
          /\ stack' = v.stack
          /\ heap' = v.heap
          /\ steps' = v.steps
          /\ relaxations' = 0
          /\ peakFrontier' = v.peakFrontier
          /\ peakClosed' = 0
          /\ iterations' = 0
          /\ selected' = NoItem
          /\ nbIdx' = 0
          /\ pc' = "loop"
          /\ trace' = NoTrace
          /\ UNCHANGED <<env, startKey, goalKey, ui, edits, client>>

NextCompare == Next \/ Compare

(***************************************************************************)
(* The inputs Init draws                                                   *)
(***************************************************************************)
\* the highest edge cost of the graphs
MaxCost == 3

\* the width of the grids (their height is 2)
GridWidth == 3

\* the highest number of wall cells of a grid
MaxWalls == 2

\* the number of keys of the chain graphs beyond minIterations
ChainExtra == 1

\* edge costs: a cheap and an expensive edge
Costs == {1, MaxCost}

\* Four nodes; every distance between two of them is a whole number, and c
\* and d lie on one point.
GraphNodes ==
  << [id |-> "a", at |-> [x |-> 0, y |-> 4]],
     [id |-> "b", at |-> [x |-> 3, y |-> 0]],
     [id |-> "c", at |-> [x |-> 0, y |-> 0]],
     [id |-> "d", at |-> [x |-> 0, y |-> 0]] >>

\* the pairs an edge list may join, in list order
CandidateEdges ==
  << <<"a", "b">>, <<"a", "c">>, <<"b", "c">>, <<"c", "d">> >>

\* the edge list that gives candidate i the cost sel[i], -1 for no edge
RECURSIVE EdgesOf(_, _)
EdgesOf(sel, i) ==
  IF i > Len(CandidateEdges)
  THEN <<>>
  ELSE (IF sel[i] = -1
        THEN <<>>
        ELSE <<[from |-> CandidateEdges[i][1], to |-> CandidateEdges[i][2],
                cost |-> sel[i]]>>)
       \o EdgesOf(sel, i + 1)

\* the costs of the candidates: -1, or a cost of Costs, or 0 on the edge
\* that joins b and c
CostChoices ==
  {sel \in [1..Len(CandidateEdges) -> {-1, 0} \cup Costs] :
     \A i \in 1..Len(CandidateEdges) : sel[i] = 0 => CandidateEdges[i] = <<"b", "c">>}

GraphEnvs ==
  {[kind |-> "graph",
    graph |-> [directed |-> d, nodes |-> GraphNodes, edges |-> EdgesOf(sel, 1)]] :
     d \in BOOLEAN, sel \in CostChoices}

GridCells(w, h) == {keyOf([x |-> i, y |-> j]) : i \in 0..(w - 1), j \in 0..(h - 1)}

\* the grids of GridWidth x 2 cells with at most MaxWalls walls, none of
\* them on the cell 0,0
GridEnvs ==
  {[kind |-> "grid", grid |-> [width |-> GridWidth, height |-> 2, walls |-> ws]] :
     ws \in {w \in SUBSET (GridCells(GridWidth, 2) \ {"0,0"}) : Cardinality(w) <= MaxWalls}}

\* the empty 5 x 5 grid
EmptyGrid5 == [kind |-> "grid", grid |-> [width |-> 5, height |-> 5, walls |-> {}]]

\* the key of chain node i
ChainKey(i) == "k" \o ToString(i)

\* A graph that lists one node, k0, and whose edges run k0 -> k1 -> ...
\* over n keys: all its keys but k0 are missing from the node list.
ChainEnv(n) ==
  [kind |-> "graph",
   graph |-> [directed |-> TRUE,
              nodes |-> <<[id |-> ChainKey(0), at |-> [x |-> 0, y |-> 0]]>>,
              edges |-> [i \in 1..(n - 1) |->
                           [from |-> ChainKey(i - 1), to |-> ChainKey(i), cost |-> 1]]]]

\* the keys of an environment: its cells, or its nodes and edge endpoints
EnvKeys(e) ==
  IF e.kind = "grid"
  THEN GridCells(e.grid.width, e.grid.height)
  ELSE {e.graph.nodes[i].id : i \in 1..Len(e.graph.nodes)}
       \cup {e.graph.edges[i].from : i \in 1..Len(e.graph.edges)}
       \cup {e.graph.edges[i].to : i \in 1..Len(e.graph.edges)}

Algorithms == {"bfs", "dfs", "dijkstra", "astar"}

Heuristics == {"manhattan", "euclidean"}

Weights == {0, 1, 2}

\* the options of a run; heuristic and weight vary where the code reads
\* them, in an A* run
AllOptions ==
  {[algorithm |-> a, heuristic |-> "manhattan", heuristicWeight |-> 1] :
     a \in Algorithms \ {"astar"}}
  \cup {[algorithm |-> "astar", heuristic |-> h, heuristicWeight |-> w] :
          h \in Heuristics, w \in Weights}

\* Math.sqrt is exact on every distance the run can ask for
SqrtExact(e, g, o) ==
  o.heuristic = "euclidean" =>
    \A k \in EnvKeys(e) :
      LET a == coordOfKey(e, k)
          b == coordOfKey(e, g)
      IN IsPerfectSquare((a.x - b.x) * (a.x - b.x) + (a.y - b.y) * (a.y - b.y))

\* the goals of the graph runs: a node, or a key the graph does not hold
GraphGoals == {GraphNodes[i].id : i \in 1..Len(GraphNodes)} \cup {"nowhere"}

\* buildTrace is called on a graph of the family, from a to any goal
InitGraph ==
  \E e \in GraphEnvs, g \in GraphGoals, o \in AllOptions :
    /\ SqrtExact(e, g, o)
    /\ Seed(e, "a", g, o)

\* buildTrace is called on a grid of the family, from 0,0 to any cell
InitGrid ==
  \E e \in GridEnvs, g \in GridCells(GridWidth, 2), o \in AllOptions :
    /\ SqrtExact(e, g, o)
    /\ Seed(e, "0,0", g, o)

\* buildTrace is called with "bfs" on the empty 5 x 5 grid, from 0,0 to 4,4
InitGrid5 ==
  Seed(EmptyGrid5, "0,0", "4,4",
       [algorithm |-> "bfs", heuristic |-> "manhattan", heuristicWeight |-> 1])

Init == (InitGraph \/ InitGrid \/ InitGrid5) /\ CalledAlone

Spec == Init /\ [][Next]_vars

\* buildTrace is called on a chain graph of minIterations or more keys,
\* with a goal on the chain or a goal that is no key of it
InitChain ==
  \E n \in MinIterations..(MinIterations + ChainExtra),
     g \in {ChainKey(2), "nowhere"},
     o \in {x \in AllOptions : x.heuristic = "manhattan" /\ x.heuristicWeight = 1} :
    Seed(ChainEnv(n), ChainKey(0), g, o) /\ CalledAlone

SpecChain == InitChain /\ [][Next]_vars

SpecAll == (Init \/ InitChain) /\ [][Next]_vars

\* buildTrace is called with a heap algorithm on the empty 5 x 5 grid, from
\* its centre to a corner
InitWide ==
  /\ \E o \in {x \in AllOptions : x.algorithm \in {"dijkstra", "astar"}
                                    /\ x.heuristic = "manhattan"} :
       Seed(EmptyGrid5, "2,2", "4,4", o)
  /\ CalledAlone

SpecWide == InitWide /\ [][Next]_vars

\* runOnce with compareOn, the primary run an A* run of weight 0
InitCompare ==
  /\ InitGraph \/ InitGrid
  /\ options.algorithm = "astar"
  /\ options.heuristicWeight = 0
  /\ CalledAlone

SpecCompare == InitCompare /\ [][NextCompare]_vars

(***************************************************************************)
(* Reference notions the properties are stated with.  They are computed   *)
(* from the environment alone, not by the search.                          *)
(***************************************************************************)
\* the edges of an environment, as triples <<from, to, cost>>: on a grid a
\* cell is joined at cost 1 to each 4-adjacent cell in bounds that is no wall
EnvEdges(e) ==
  IF e.kind = "grid"
  THEN LET cells == {[x |-> i, y |-> j] : i \in 0..(e.grid.width - 1),
                                         j \in 0..(e.grid.height - 1)}
       IN {<<keyOf(p[1]), keyOf(p[2]), 1>> :
             p \in {q \in cells \X cells :
                      /\ Abs(q[1].x - q[2].x) + Abs(q[1].y - q[2].y) = 1
                      /\ keyOf(q[2]) \notin e.grid.walls}}
  ELSE LET es == e.graph.edges
       IN {<<es[i].from, es[i].to, es[i].cost>> : i \in 1..Len(es)}
          \cup (IF e.graph.directed
                THEN {}
                ELSE {<<es[i].to, es[i].from, es[i].cost>> : i \in 1..Len(es)})

SetMin(S) == CHOOSE x \in S : \A y \in S : x <= y

\* one round of relaxing every edge of E on the distances dist
RefRound(E, dist) ==
  [k \in DOMAIN dist \cup {t[2] : t \in {u \in E : u[1] \in DOMAIN dist}} |->
     SetMin({dist[t[1]] + t[3] : t \in {u \in E : u[1] \in DOMAIN dist /\ u[2] = k}}
            \cup (IF k \in DOMAIN dist THEN {dist[k]} ELSE {}))]

\* rounds of relaxation until no distance changes (each round is bound to
\* its value before the next one reads it)
RECURSIVE RefDist(_, _)
RefDist(E, dist) ==
  CHOOSE r \in {IF d = dist THEN dist ELSE RefDist(E, d) : d \in {RefRound(E, dist)}} :
    TRUE

\* the least cost of a path from s to each key reachable from s
TrueCost(e, s) ==
  CHOOSE r \in {RefDist(E, d) : E \in {EnvEdges(e)}, d \in {MapSet(EmptyMap, s, 0)}} :
    TRUE

\* the keys reachable from s
Reachable(e, s) == DOMAIN TrueCost(e, s)

\* the keys of the path the last snapshot's parent links spell out
KeyPath == WalkBack(steps[Len(steps)].cameFrom, startKey, goalKey)

\* kp runs along edges of E
IsWalk(E, kp) ==
  \A i \in 1..(Len(kp) - 1) : \E t \in E : t[1] = kp[i] /\ t[2] = kp[i + 1]

\* the summed cost of the edges of the walk kp
RECURSIVE WalkCost(_, _, _)
WalkCost(E, kp, i) ==
  IF i >= Len(kp)
  THEN 0
  ELSE SetMin({t[3] : t \in {u \in E : u[1] = kp[i] /\ u[2] = kp[i + 1]}})
       + WalkCost(E, kp, i + 1)

LastStep == steps[Len(steps)]

(***************************************************************************)
(* Properties                                                              *)
(***************************************************************************)
\* C2: a BFS run on a grid whose goal is reachable from the start returns
\* found = true and a path with as many edges as the shortest hop count; on
\* the empty 5 x 5 grid from 0,0 to 4,4 the path has 9 coordinates and at
\* most 25 keys are explored.
C2_BfsShortestOnGrid ==
  (/\ pc = "returned"
   /\ options.algorithm = "bfs"
   /\ env.kind = "grid"
   /\ goalKey \in Reachable(env, startKey))
  => /\ trace.found
     /\ Len(trace.path) - 1 = TrueCost(env, startKey)[goalKey]
     /\ (env = EmptyGrid5 /\ startKey = "0,0" /\ goalKey = "4,4")
          => (Len(trace.path) = 9 /\ trace.metrics.explored <= 25)

\* a BFS run on a walled grid that returned a path of four cells or more
C2_Witness ==
  /\ pc = "returned"
  /\ options.algorithm = "bfs"
  /\ env.kind = "grid"
  /\ env.grid.walls # {}
  /\ trace.found
  /\ Len(trace.path) >= 4

\* C3: a Dijkstra run on a graph whose goal is reachable from the start
\* returns found = true and a path along edges from start to goal whose
\* summed cost is the least cost of any path, which is also the g of the
\* selected goal item.
C3_DijkstraOptimal ==
  (/\ pc = "returned"
   /\ options.algorithm = "dijkstra"
   /\ env.kind = "graph"
   /\ goalKey \in Reachable(env, startKey))
  => /\ trace.found
     /\ LastStep.phase = "found"
     /\ trace.path = [i \in 1..Len(KeyPath) |-> coordOfKey(env, KeyPath[i])]
     /\ KeyPath[1] = startKey
     /\ KeyPath[Len(KeyPath)] = goalKey
     /\ IsWalk(EnvEdges(env), KeyPath)
     /\ WalkCost(EnvEdges(env), KeyPath, 1) = TrueCost(env, startKey)[goalKey]
     /\ LastStep.selected.g = TrueCost(env, startKey)[goalKey]

\* a Dijkstra run that lowered a recorded cost on its way to the goal
C3_Witness ==
  /\ pc = "returned"
  /\ options.algorithm = "dijkstra"
  /\ env.kind = "graph"
  /\ trace.found
  /\ Len(trace.path) >= 3
  /\ \E i \in 1..Len(steps) :
       /\ "relaxation" \in DOMAIN steps[i]
       /\ "oldG" \in DOMAIN steps[i].relaxation

\* the heuristic hid never overestimates the least cost to the goal g
Admissible(e, g, hid) ==
  \A k \in EnvKeys(e) :
    g \in Reachable(e, k) =>
      heuristicFn(hid, coordOfKey(e, k), coordOfKey(e, g)) <= TrueCost(e, k)[g]

\* C4: an A* run with heuristicWeight <= 1 and a heuristic admissible for
\* its environment that returns found = true returns a path whose summed
\* edge cost is the least cost of any path from start to goal.
C4_AStarOptimal ==
  (/\ pc = "returned"
   /\ options.algorithm = "astar"
   /\ options.heuristicWeight <= 1
   /\ trace.found
   /\ Admissible(env, goalKey, options.heuristic))
  => WalkCost(EnvEdges(env), KeyPath, 1) = TrueCost(env, startKey)[goalKey]

\* C5: the key of a "select" snapshot is in the closed set of no snapshot
\* up to it, and no two "select" snapshots have the same key.
C5_NoRevisits ==
  \A i \in 1..Len(steps) :
    steps[i].phase = "select" =>
      /\ \A j \in 1..i : steps[i].currentKey \notin steps[j].closed
      /\ \A j \in 1..(i - 1) :
           steps[j].phase = "select" => steps[j].currentKey # steps[i].currentKey

\* a heap run selects a key while a stale entry of an expanded key is still
\* in the frontier
C5_Witness ==
  /\ fk = "minheap"
  /\ LastStep.phase = "select"
  /\ \E i \in 1..Len(LastStep.frontier) : LastStep.frontier[i].key \in closed

\* C6: a RelaxationEvent with an oldG carries the cost the preceding
\* snapshot records for its "to" key, and that cost is above newG; one
\* without oldG is for a key the preceding snapshot records no cost for.
C6_RelaxationCorrect ==
  \A i \in 1..Len(steps) :
    "relaxation" \in DOMAIN steps[i] =>
      LET r == steps[i].relaxation
          before == steps[i - 1].gScore
      IN /\ i > 1
         /\ IF "oldG" \in DOMAIN r
            THEN /\ r.to \in DOMAIN before
                 /\ r.oldG = before[r.to]
                 /\ r.oldG > r.newG
            ELSE r.to \notin DOMAIN before

\* a "relax" snapshot lowers a recorded cost, and the "enqueue" snapshot of
\* the same neighbour is the last one
C6_Witness ==
  /\ Len(steps) >= 2
  /\ LastStep.phase = "enqueue"
  /\ steps[Len(steps) - 1].phase = "relax"
  /\ "oldG" \in DOMAIN steps[Len(steps) - 1].relaxation

\* the indices of the snapshots of phase "found" or "exhausted"
Terminal == {i \in 1..Len(steps) : steps[i].phase \in {"found", "exhausted"}}

\* the indices of the snapshots of phase "exhausted"
Exhausted == {i \in 1..Len(steps) : steps[i].phase = "exhausted"}

\* the cap as the specification gives it
SpecifiedCap(e) == Max(100, Min(SizeBasis(e) * 20, 10000))

\* C7: once the main loop has started an iteration beyond
\* max(100, min(sizeBasis * 20, 10000)) the run has stopped with exactly
\* one "exhausted" snapshot, the last of the trace, with currentKey null and
\* a warning, and it returns found = false and an empty path.
C7_IterationCap ==
  iterations > SpecifiedCap(env) =>
    /\ pc \in {"done", "returned"}
    /\ Cardinality(Exhausted) = 1
    /\ LastStep.phase = "exhausted"
    /\ LastStep.currentKey = NULL
    /\ "warnings" \in DOMAIN LastStep
    /\ Len(LastStep.warnings) > 0
    /\ pc = "returned" => (~trace.found /\ trace.path = <<>>)

\* a run that started iteration 101 on a graph of one listed node has
\* returned
C7_Witness ==
  /\ pc = "returned"
  /\ iterations > SpecifiedCap(env)
  /\ LastStep.phase = "exhausted"

\* the start key and every edge endpoint of a graph are in its node list
WellFormed(e, s) ==
  e.kind = "grid"
  \/ LET ids == {e.graph.nodes[i].id : i \in 1..Len(e.graph.nodes)}
     IN /\ s \in ids
        /\ \A i \in 1..Len(e.graph.edges) :
             e.graph.edges[i].from \in ids /\ e.graph.edges[i].to \in ids

\* C8: on a grid, or a graph whose start key and edge endpoints are in its
\* node list, of fewer than 10000 cells or nodes, no snapshot has phase
\* "exhausted": the loop runs at most one iteration more than there are
\* cells or nodes, and the run ends on the goal or on an empty frontier.
C8_CapNeverTruncates ==
  (WellFormed(env, startKey) /\ SizeBasis(env) < 10000) =>
    /\ Exhausted = {}
    /\ iterations <= SizeBasis(env) + 1
    /\ pc = "returned" => (trace.found \/ Len(frontierToArray) = 0)

\* a run on a graph that took one iteration more than the graph has nodes
C8_Witness ==
  /\ pc = "returned"
  /\ env.kind = "graph"
  /\ WellFormed(env, startKey)
  /\ iterations = SizeBasis(env) + 1

\* C9: a run whose goal is not reachable from the start, and which the
\* iteration cap did not stop, returns found = false and an empty path, has
\* no "found" and no "exhausted" snapshot, and the closed set of its last
\* snapshot is the set of keys reachable from the start.
C9_UnreachableGoal ==
  (/\ pc = "returned"
   /\ goalKey \notin Reachable(env, startKey)
   /\ iterations <= SpecifiedCap(env))
  => /\ ~trace.found
     /\ trace.path = <<>>
     /\ Terminal = {}
     /\ LastStep.closed = Reachable(env, startKey)

\* a run on a grid whose goal is a free cell cut off by walls
C9_Witness ==
  /\ pc = "returned"
  /\ env.kind = "grid"
  /\ goalKey \notin env.grid.walls
  /\ goalKey \notin Reachable(env, startKey)
  /\ Cardinality(closed) >= 3

\* C10: at most one snapshot has phase "found" or "exhausted", it is the
\* last snapshot, and the returned found flag is true exactly when the last
\* snapshot has phase "found".
C10_OneTerminal ==
  /\ Cardinality(Terminal) <= 1
  /\ \A i \in Terminal : i = Len(steps)
  /\ pc = "returned" => (trace.found <=> LastStep.phase = "found")

\* a run that the iteration cap stopped has returned
C10_Witness ==
  /\ pc = "returned"
  /\ ~trace.found
  /\ LastStep.phase = "exhausted"
  /\ Len(steps) > MinIterations

\* the key j parent links back from k, null once a link is missing
RECURSIVE StepsBack(_, _, _)
StepsBack(links, k, j) ==
  IF j = 0
  THEN k
  ELSE LET prev == StepsBack(links, k, j - 1)
       IN IF prev \in DOMAIN links THEN links[prev] ELSE NULL

\* the "found" snapshot of the trace
FoundStep == steps[CHOOSE i \in 1..Len(steps) : steps[i].phase = "found"]

\* C11: when found = true the path attached to the "found" snapshot is the
\* chain of parent links of that snapshot from the goal back to the first
\* occurrence of the start, reversed and mapped to coordinates, and it is
\* the final path of the trace.
C11_PathRoundTrip ==
  (pc = "returned" /\ trace.found) =>
    LET links == FoundStep.cameFrom
        n == Len(FoundStep.path)
    IN /\ n >= 1
       /\ \A i \in 1..n :
            FoundStep.path[i] = coordOfKey(env, StepsBack(links, goalKey, n - i))
       /\ StepsBack(links, goalKey, n - 1) = startKey
       /\ \A j \in 0..(n - 2) : StepsBack(links, goalKey, j) # startKey
       /\ trace.path = FoundStep.path

\* a depth-first run returned a path of three keys or more
C11_Witness ==
  /\ pc = "returned"
  /\ options.algorithm = "dfs"
  /\ trace.found
  /\ Len(trace.path) >= 3
  /\ startKey # goalKey

\* every snapshot emitted so far is left as it is, and snapshots are only
\* added at the end
StepsOnlyAppended ==
  /\ Len(steps') >= Len(steps)
  /\ SubSeq(steps', 1, Len(steps)) = steps

\* C12: the index of every snapshot is its position (counted from 0), and
\* no step of the run removes a snapshot or changes the frontier, visited
\* set, closed set, parent map or cost map of a snapshot already emitted.
C12_AppendOnly ==
  /\ [](\A i \in 1..Len(steps) : steps[i].index = i - 1)
  /\ [][StepsOnlyAppended]_vars

\* an emitted snapshot differs from the live state in its frontier, its
\* sets and its maps
C12_Witness ==
  \E i \in 1..Len(steps) :
    /\ steps[i].frontier # frontierToArray
    /\ steps[i].visited # visited
    /\ steps[i].closed # closed
    /\ steps[i].cameFrom # cameFrom
    /\ steps[i].gScore # gScore

\* C13: the closed set of every snapshot is a subset of the closed set of
\* the next snapshot.
C13_ClosedGrows ==
  \A i \in 1..(Len(steps) - 1) : steps[i].closed \subseteq steps[i + 1].closed

\* the closed set grew by one key between the last two snapshots and held
\* a key before
C13_Witness ==
  /\ Len(steps) >= 2
  /\ steps[Len(steps) - 1].closed # {}
  /\ Cardinality(LastStep.closed) = Cardinality(steps[Len(steps) - 1].closed) + 1

\* C14: a run whose start key is its goal key returns three snapshots of
\* phases init, select, found, the path of the start coordinate alone,
\* explored = 0 and relaxations = 0.
C14_StartIsGoal ==
  (pc = "returned" /\ startKey = goalKey) =>
    /\ Len(steps) = 3
    /\ steps[1].phase = "init"
    /\ steps[2].phase = "select"
    /\ steps[3].phase = "found"
    /\ trace.found
    /\ trace.path = <<coordOfKey(env, startKey)>>
    /\ steps[3].path = trace.path
    /\ trace.metrics.explored = 0
    /\ trace.metrics.relaxations = 0

\* a run on a graph whose start has neighbours returned with start = goal
C14_Witness ==
  /\ pc = "returned"
  /\ startKey = goalKey
  /\ env.kind = "graph"
  /\ Len(neighbors(env, startKey)) > 0
  /\ trace.metrics.runtimeSteps = 3

\* the ids of the node list of a graph
NodeIds(e) == {e.graph.nodes[i].id : i \in 1..Len(e.graph.nodes)}

\* C15: on a graph no key other than a node id or the start key is in the
\* frontier, the visited set, the closed set or the parent map of any
\* snapshot.
C15_MalformedDropped ==
  env.kind = "graph" =>
    \A i \in 1..Len(steps) :
      LET known == NodeIds(env) \cup {startKey}
      IN /\ \A j \in 1..Len(steps[i].frontier) : steps[i].frontier[j].key \in known
         /\ steps[i].visited \subseteq known
         /\ steps[i].closed \subseteq known
         /\ DOMAIN steps[i].cameFrom \subseteq known
         /\ {steps[i].cameFrom[k] : k \in DOMAIN steps[i].cameFrom} \subseteq known

\* what C16 compares of a trace: per snapshot the phase, the current key,
\* the keys of the frontier in order, the sets, the maps and the relaxation
\* event (a sequence of none or one)
Compared(st) ==
  [i \in 1..Len(st) |->
     [phase |-> st[i].phase,
      currentKey |-> st[i].currentKey,
      frontierKeys |-> [j \in 1..Len(st[i].frontier) |-> st[i].frontier[j].key],
      visited |-> st[i].visited,
      closed |-> st[i].closed,
      cameFrom |-> st[i].cameFrom,
      gScore |-> st[i].gScore,
      relaxation |-> IF "relaxation" \in DOMAIN st[i]
                     THEN <<st[i].relaxation>> ELSE <<>>]]

\* C16: an A* run of heuristic weight 0 and a Dijkstra run on the same
\* environment, start and goal return traces of equal length that agree
\* snapshot by snapshot on phase, current key, frontier key order, visited,
\* closed, parent map, cost map and relaxation event, and the same found
\* flag and path.
C16_WeightZeroIsDijkstra ==
  (/\ pc = "returned"
   /\ primary.kept
   /\ primary.options.algorithm = "astar"
   /\ primary.options.heuristicWeight = 0
   /\ options.algorithm = "dijkstra")
  => /\ Compared(steps) = Compared(primary.steps)
     /\ trace.found = primary.found
     /\ trace.path = primary.path

\* a Dijkstra run that lowered a recorded cost has returned after an A* run
\* of weight 0 whose start lies away from its goal
C16_Witness ==
  /\ pc = "returned"
  /\ primary.kept
  /\ primary.options.algorithm = "astar"
  /\ primary.options.heuristicWeight = 0
  /\ options.algorithm = "dijkstra"
  /\ trace.found
  /\ Len(trace.path) >= 3
  /\ heuristicFn(options.heuristic, coordOfKey(env, startKey),
                 coordOfKey(env, goalKey)) > 0
  /\ \E i \in 1..Len(steps) :
       "relaxation" \in DOMAIN steps[i] /\ "oldG" \in DOMAIN steps[i].relaxation

\* the indices of the "select" snapshots
Selections == {i \in 1..Len(steps) : steps[i].phase = "select"}

\* more than the steps one iteration of the main loop can take: the
\* longest neighbour list and three
IterationSteps(e) ==
  IF e.kind = "grid" THEN 7 ELSE 2 * Len(e.graph.edges) + 3

\* the steps left to the iteration under way
StepsLeftInIteration ==
  CASE pc = "expand" -> Len(neighbors(env, selected.key)) + 2
    [] pc = "neighbors" -> Len(neighbors(env, selected.key)) + 1 - nbIdx
    [] OTHER -> 0

\* a bound on the steps left to the run: 0 once it has returned
Variant ==
  CASE pc = "returned" -> 0
    [] pc = "done" -> 1
    [] OTHER -> 2 + (SpecifiedCap(env) + 1 - iterations) * IterationSteps(env)
                  + StepsLeftInIteration

\* the run is at a position where one of its steps is defined: the head of
\* the loop, an expansion of a selected item, a neighbour of the list, or
\* the code after the loop
AtAStep ==
  \/ pc \in {"loop", "done"}
  \/ pc = "expand" /\ selected.key # NULL
  \/ /\ pc = "neighbors"
     /\ selected.key # NULL
     /\ nbIdx \in 1..Len(neighbors(env, selected.key))

\* C18: every run returns a trace: a run that has not returned can take a
\* step, and every step lowers a natural number, the variant; the stale-entry
\* loop and the parent-link walk are evaluated to their end within one step.
\* On the way the main loop starts at most maxIterations + 1 iterations and
\* selects at most maxIterations = max(100, min(sizeBasis * 20, 10000)) items.
C18_Terminates ==
  /\ [](/\ Variant >= 0
        /\ pc # "returned" => AtAStep
        /\ iterations <= SpecifiedCap(env) + 1
        /\ Cardinality(Selections) <= SpecifiedCap(env))
  /\ [][Variant' < Variant]_vars

\* a run that selected as many items as the cap allows has returned
C18_Witness ==
  /\ pc = "returned"
  /\ Cardinality(Selections) = SpecifiedCap(env)

\* the metric the why-not analysis of a run compares
WhyNotMetric == IF options.algorithm = "dijkstra" THEN "g" ELSE "f"

\* the positions in the frontier of snapshot sn of the items that have
\* another key than the chosen item and another metric value
Contenders(sn) ==
  {j \in 1..Len(sn.frontier) :
     /\ sn.frontier[j].key # sn.selected.key
     /\ MetricValue(sn.frontier[j], WhyNotMetric)
          # MetricValue(sn.selected, WhyNotMetric)}

\* C19: at every "select" snapshot of a Dijkstra or A* run, whyNot lists
\* min(4, n) of the n frontier items that are not the chosen item and whose
\* metric value differs from the chosen one's, in ascending order of the
\* metric, and no item left out has a smaller value than one listed.
C19_WhyNotSelection ==
  \A i \in 1..Len(steps) :
    (steps[i].phase = "select" /\ "whyNot" \in DOMAIN steps[i]) =>
      LET sn == steps[i]
          w == sn.whyNot
          Value(j) == MetricValue(sn.frontier[j], WhyNotMetric)
      IN /\ Len(w) = Min(4, Cardinality(Contenders(sn)))
         /\ \A k \in 1..Len(w) :
              /\ \E j \in Contenders(sn) :
                   w[k].candidate = sn.frontier[j] /\ w[k].candidateValue = Value(j)
              /\ Cardinality({j \in Contenders(sn) : Value(j) < w[k].candidateValue})
                   <= k - 1
         /\ \A k \in 1..(Len(w) - 1) : w[k].candidateValue <= w[k + 1].candidateValue

\* C20: every RejectionReason of every snapshot has a candidateValue above
\* its chosenValue, and at a "select" snapshot of a heap run no item of the
\* frontier, stale duplicates included, has a smaller metric value than the
\* selected item.
C20_RejectionsAreHigher ==
  \A i \in 1..Len(steps) :
    "whyNot" \in DOMAIN steps[i] =>
      /\ \A k \in 1..Len(steps[i].whyNot) :
           steps[i].whyNot[k].candidateValue > steps[i].whyNot[k].chosenValue
      /\ \A j \in 1..Len(steps[i].frontier) :
           MetricValue(steps[i].frontier[j], WhyNotMetric)
             >= MetricValue(steps[i].selected, WhyNotMetric)

\* a "select" snapshot lists a rejection while a stale entry of a closed key
\* is in its frontier
C20_Witness ==
  \E i \in 1..Len(steps) :
    /\ "whyNot" \in DOMAIN steps[i]
    /\ Len(steps[i].whyNot) > 0
    /\ \E j \in 1..Len(steps[i].frontier) :
         steps[i].frontier[j].key \in steps[i].closed

\* the run is one of Dijkstra or A*
HeapRun == options.algorithm \in {"dijkstra", "astar"}

\* in snapshot sn the key of item it is closed, or the item carries a g
\* above the best-known g of its key
StaleIn(it, sn) ==
  \/ it.key \in sn.closed
  \/ it.key \in DOMAIN sn.gScore /\ it.g > sn.gScore[it.key]

\* C21: at every "select" snapshot of a Dijkstra or A* run the selected key
\* is not closed and the selected item carries the best-known g of its key;
\* the entries that left the frontier since the preceding snapshot are the
\* selected item and stale entries only, and a run that ends without a
\* "found" or "exhausted" snapshot left only stale entries behind its last
\* snapshot.
C21_NeverStale ==
  HeapRun =>
    /\ \A i \in 2..Len(steps) :
         steps[i].phase = "select" =>
           LET sn == steps[i]
               before == Range(steps[i - 1].frontier)
               after == Range(sn.frontier)
           IN /\ sn.currentKey \notin sn.closed
              /\ sn.currentKey \in DOMAIN sn.gScore
              /\ sn.selected.g = sn.gScore[sn.currentKey]
              /\ sn.selected \in before
              /\ after \subseteq before
              /\ \A it \in before \ after : it = sn.selected \/ StaleIn(it, sn)
    /\ (pc \in {"done", "returned"} /\ Terminal = {}) =>
         \A it \in Range(LastStep.frontier) : StaleIn(it, LastStep)

\* a "select" snapshot of a heap run before which a stale entry was popped
\* and dropped
C21_Witness ==
  /\ HeapRun
  /\ Len(steps) >= 2
  /\ LastStep.phase = "select"
  /\ Len(steps[Len(steps) - 1].frontier) - Len(LastStep.frontier) >= 2

\* C22: in a BFS run the item of each "select" snapshot is the first element
\* of the preceding snapshot's frontier, in a DFS run the last one; the
\* "select" snapshot's frontier is the preceding frontier without that
\* element, and the selection reason is {fifo} for BFS and {lifo} for DFS.
C22_FrontierDiscipline ==
  \A i \in 2..Len(steps) :
    steps[i].phase = "select" =>
      LET sn == steps[i]
          before == steps[i - 1].frontier
      IN /\ options.algorithm = "bfs" =>
              /\ Len(before) >= 1
              /\ sn.selected = before[1]
              /\ sn.frontier = SubSeq(before, 2, Len(before))
              /\ sn.selectionReason = [kind |-> "fifo"]
         /\ options.algorithm = "dfs" =>
              /\ Len(before) >= 1
              /\ sn.selected = before[Len(before)]
              /\ sn.frontier = SubSeq(before, 1, Len(before) - 1)
              /\ sn.selectionReason = [kind |-> "lifo"]

\* a DFS run selects from a stack of three items or more, a BFS run from a
\* queue of two or more
C22_Witness ==
  /\ Len(steps) >= 2
  /\ LastStep.phase = "select"
  /\ \/ options.algorithm = "dfs" /\ Len(steps[Len(steps) - 1].frontier) >= 3
     \/ options.algorithm = "bfs" /\ Len(steps[Len(steps) - 1].frontier) >= 2
  /\ steps[Len(steps) - 1].frontier[1]
       # steps[Len(steps) - 1].frontier[Len(steps[Len(steps) - 1].frontier)]

\* C23: every "select" snapshot whose key is the goal key is followed at
\* once by a "found" snapshot for the same key that carries the path
\* reconstructed from its parent map and the selection reason {goal}, and
\* that snapshot is the last; the goal key is in no closed set and no
\* RelaxationEvent starts from it.
C23_GoalTest ==
  /\ \A i \in 1..Len(steps) :
       (steps[i].phase = "select" /\ steps[i].currentKey = goalKey) =>
         /\ Len(steps) = i + 1
         /\ steps[i + 1].phase = "found"
         /\ steps[i + 1].currentKey = goalKey
         /\ steps[i + 1].selectionReason = [kind |-> "goal"]
         /\ steps[i + 1].path
              = reconstructPathCoords(env, steps[i + 1].cameFrom, startKey, goalKey)
  /\ \A i \in 1..Len(steps) :
       /\ goalKey \notin steps[i].closed
       /\ "relaxation" \in DOMAIN steps[i] => steps[i].relaxation.from # goalKey
  /\ goalKey \notin closed

\* a run found its goal, away from the start, while a neighbour of the goal
\* was neither closed nor visited
C23_Witness ==
  /\ LastStep.phase = "found"
  /\ Len(LastStep.path) >= 3
  /\ \E j \in 1..Len(neighbors(env, goalKey)) :
       neighbors(env, goalKey)[j].key \notin visited

\* the neighbour the for-loop is at
NeighborAt == neighbors(env, selected.key)[nbIdx]

\* the cost of the edge to the neighbour the for-loop is at: 1 on a grid,
\* the edge's own cost on a graph
EdgeCostAt == IF env.kind = "grid" THEN 1 ELSE NeighborAt.cost

\* the step of the for-loop of a Dijkstra or A* run on one neighbour
RelaxationProtocol ==
  (pc = "neighbors" /\ HeapRun) =>
    LET nbKey == NeighborAt.key
        tentativeG == gScore[selected.key] + EdgeCostAt
        n == Len(steps)
    IN IF /\ nbKey \notin closed
          /\ nbKey \notin DOMAIN gScore \/ tentativeG < gScore[nbKey]
       THEN /\ Len(steps') = n + 2
            /\ SubSeq(steps', 1, n) = steps
            /\ steps'[n + 1].phase = "relax"
            /\ steps'[n + 1].relaxation.from = selected.key
            /\ steps'[n + 1].relaxation.to = nbKey
            /\ steps'[n + 1].relaxation.newG = tentativeG
            /\ steps'[n + 1].cameFrom[nbKey] = selected.key
            /\ steps'[n + 1].gScore[nbKey] = tentativeG
            /\ steps'[n + 1].frontier = frontierToArray
            /\ steps'[n + 2].phase = "enqueue"
            /\ "relaxation" \notin DOMAIN steps'[n + 2]
            /\ Len(steps'[n + 2].frontier) = Len(steps'[n + 1].frontier) + 1
            /\ \E j \in 1..Len(steps'[n + 2].frontier) :
                 /\ steps'[n + 2].frontier[j].key = nbKey
                 /\ steps'[n + 2].frontier[j].g = tentativeG
            /\ steps'[n + 2].cameFrom = steps'[n + 1].cameFrom
            /\ steps'[n + 2].gScore = steps'[n + 1].gScore
       ELSE UNCHANGED <<steps, visited, closed, cameFrom, gScore, heap, queue,
                        stack, relaxations, peakFrontier, peakClosed>>

\* C24: in a Dijkstra or A* run a neighbour that is not closed and has no
\* best-known g, or a tentative g (current g + edge cost) below it, produces
\* one "relax" snapshot that shows the new parent link and cost, followed at
\* once by one "enqueue" snapshot whose frontier holds one entry more; any
\* other neighbour produces no snapshot and changes no state.
C24_RelaxationProtocol == [][RelaxationProtocol]_vars

\* the indices of the snapshots after the last "expand" snapshot
SinceExpand ==
  {i \in 1..Len(steps) : \A j \in i..Len(steps) : steps[j].phase # "expand"}

\* of the first two neighbours of an expanded key one was relaxed and one,
\* not closed, was passed over
C24_Witness ==
  /\ HeapRun
  /\ pc = "neighbors"
  /\ nbIdx = 3
  /\ steps[Len(steps) - 1].phase = "relax"
  /\ LastStep.phase = "enqueue"
  /\ \E j \in 1..2 :
       LET k == neighbors(env, selected.key)[j].key
       IN /\ k \notin closed
          /\ \A i \in SinceExpand :
               "relaxation" \in DOMAIN steps[i] => steps[i].relaxation.to # k

\* the step of the for-loop of a BFS or DFS run on one neighbour
DiscoveryProtocol ==
  (pc = "neighbors" /\ ~HeapRun) =>
    LET nbKey == NeighborAt.key
        n == Len(steps)
    IN IF nbKey \notin closed /\ nbKey \notin visited
       THEN /\ Len(steps') = n + 2
            /\ SubSeq(steps', 1, n) = steps
            /\ steps'[n + 1].phase = "enqueue"
            /\ "relaxation" \in DOMAIN steps'[n + 1]
            /\ "oldG" \notin DOMAIN steps'[n + 1].relaxation
            /\ steps'[n + 1].relaxation.from = selected.key
            /\ steps'[n + 1].relaxation.to = nbKey
            /\ steps'[n + 1].frontier = frontierToArray
            /\ \A j \in 1..Len(steps'[n + 1].frontier) :
                 steps'[n + 1].frontier[j].key # nbKey
            /\ nbKey \in steps'[n + 1].visited
            /\ nbKey \in DOMAIN steps'[n + 1].cameFrom
            /\ steps'[n + 1].cameFrom[nbKey] = selected.key
            /\ steps'[n + 2].phase = "enqueue"
            /\ "relaxation" \notin DOMAIN steps'[n + 2]
            /\ Len(steps'[n + 2].frontier) = Len(steps'[n + 1].frontier) + 1
            /\ SubSeq(steps'[n + 2].frontier, 1, Len(steps'[n + 1].frontier))
                 = steps'[n + 1].frontier
            /\ steps'[n + 2].frontier[Len(steps'[n + 2].frontier)].key = nbKey
            /\ steps'[n + 2].visited = steps'[n + 1].visited
            /\ steps'[n + 2].cameFrom = steps'[n + 1].cameFrom
       ELSE UNCHANGED <<steps, visited, closed, cameFrom, gScore, heap, queue,
                        stack, relaxations, peakFrontier, peakClosed>>

\* the "to" keys of the RelaxationEvents of the trace, in order
EnqueuedKeys ==
  LET Carries(sn) == "relaxation" \in DOMAIN sn
      with == SelectSeq(steps, Carries)
  IN [i \in 1..Len(with) |-> with[i].relaxation.to]

\* C25: in a BFS or DFS run a neighbour that is neither closed nor visited
\* produces two consecutive "enqueue" snapshots: the first carries a
\* RelaxationEvent with oldG null, shows the neighbour visited and linked to
\* its parent and not yet in the frontier; the second carries no event and
\* its frontier is the first one's with the neighbour's item appended.  Any
\* other neighbour produces no snapshot, and no key is enqueued twice.
C25_DiscoveryProtocol ==
  /\ [](~HeapRun =>
          /\ \A i, j \in 1..Len(EnqueuedKeys) :
               EnqueuedKeys[i] = EnqueuedKeys[j] => i = j
          /\ \A i \in 1..Len(EnqueuedKeys) : EnqueuedKeys[i] # startKey
          /\ \A i \in 1..Len(steps) : \A a, b \in 1..Len(steps[i].frontier) :
               steps[i].frontier[a].key = steps[i].frontier[b].key => a = b)
  /\ [][DiscoveryProtocol]_vars

\* a BFS or DFS run has just enqueued a neighbour after passing over one
\* that was visited and not closed
C25_Witness ==
  /\ ~HeapRun
  /\ pc \in {"neighbors", "loop"}
  /\ Len(steps) >= 2
  /\ LastStep.phase = "enqueue"
  /\ "relaxation" \in DOMAIN steps[Len(steps) - 1]
  /\ \E j \in 1..Len(neighbors(env, selected.key)) :
       LET k == neighbors(env, selected.key)[j].key
       IN /\ j < nbIdx
          /\ k \in visited
          /\ k \notin closed
          /\ \A i \in SinceExpand :
               "relaxation" \in DOMAIN steps[i] => steps[i].relaxation.to # k

\* the newG under which key k was discovered in the trace: 0 for the start
DiscoveredAt(k) ==
  IF k = startKey
  THEN 0
  ELSE steps[CHOOSE i \in 1..Len(steps) :
               "relaxation" \in DOMAIN steps[i] /\ steps[i].relaxation.to = k
            ].relaxation.newG

\* C26: in a BFS or DFS run the newG of every RelaxationEvent is 1 + the
\* newG under which the expanded key was discovered (0 for the start), and
\* it is the depth of the item the next snapshot shows enqueued.
C26_UnweightedCost ==
  ~HeapRun =>
    \A i \in 1..(Len(steps) - 1) :
      "relaxation" \in DOMAIN steps[i] =>
        LET r == steps[i].relaxation
            enqueued == steps[i + 1].frontier[Len(steps[i + 1].frontier)]
        IN /\ enqueued.key = r.to
           /\ r.newG = 1 + DiscoveredAt(r.from)
           /\ r.newG = enqueued.depth

\* an anomaly warning applies to the expansion under way: the BFS frontier
\* or the DFS depth exceeds 35% of sizeBasis, or the run is a weighted A*
WarningApplies ==
  \/ options.algorithm = "bfs" /\ 100 * Len(frontierToArray) > 35 * SizeBasis(env)
  \/ options.algorithm = "dfs" /\ 100 * selected.depth > 35 * SizeBasis(env)
  \/ options.algorithm = "astar" /\ options.heuristicWeight > 1

\* the fields of a snapshot that show the state of the search
StateShown(sn) ==
  <<sn.currentKey, sn.frontier, sn.visited, sn.closed, sn.cameFrom, sn.gScore>>

\* the step that expands the selected item
TwoEventExpand ==
  pc = "expand" =>
    LET n == Len(steps)
    IN /\ closed' = closed \cup {selected.key}
       /\ SubSeq(steps', 1, n) = steps
       /\ steps'[n + 1].phase = "expand"
       /\ steps'[n + 1].currentKey = selected.key
       /\ steps'[n + 1].closed = closed'
       /\ "warnings" \notin DOMAIN steps'[n + 1]
       /\ IF WarningApplies
          THEN /\ Len(steps') = n + 2
               /\ steps'[n + 2].phase = "expand"
               /\ "warnings" \in DOMAIN steps'[n + 2]
               /\ Len(steps'[n + 2].warnings) >= 1
               /\ StateShown(steps'[n + 2]) = StateShown(steps'[n + 1])
          ELSE Len(steps') = n + 1

\* C27: an expansion closes the selected key and emits one "expand"
\* snapshot without warnings; if a warning applies it emits one more
\* "expand" snapshot at once, with the warnings and the same current key,
\* frontier, visited set, closed set, parent map and cost map, and otherwise
\* no other: a key has one "expand" snapshot without warnings and at most
\* one with.
C27_TwoEventExpand ==
  /\ [](\A i \in 1..Len(steps) :
          steps[i].phase = "expand" =>
            /\ steps[i].currentKey \in steps[i].closed
            /\ \A j \in 1..Len(steps) :
                 (/\ steps[j].phase = "expand"
                  /\ steps[j].currentKey = steps[i].currentKey
                  /\ ("warnings" \in DOMAIN steps[j]) = ("warnings" \in DOMAIN steps[i]))
                 => j = i
            /\ "warnings" \in DOMAIN steps[i] =>
                 /\ i > 1
                 /\ steps[i - 1].phase = "expand"
                 /\ "warnings" \notin DOMAIN steps[i - 1]
                 /\ StateShown(steps[i - 1]) = StateShown(steps[i]))
  /\ [][TwoEventExpand]_vars

\* a BFS or DFS run has expanded one key with a warning and another without
C27_Witness ==
  /\ ~HeapRun
  /\ Len(steps) >= 2
  /\ LastStep.phase = "expand"
  /\ "warnings" \in DOMAIN LastStep
  /\ \E i \in 2..(Len(steps) - 2) :
       /\ steps[i].phase = "expand"
       /\ steps[i + 1].phase # "expand"

\* C28: only snapshots of phase "select" or "found" carry a selectionReason.
C28_ReasonOnlyAtSelection ==
  \A i \in 1..Len(steps) :
    "selectionReason" \in DOMAIN steps[i] => steps[i].phase \in {"select", "found"}

\* the greatest number of the non-empty set S of numbers
SetMax(S) == CHOOSE x \in S : \A y \in S : y <= x

\* C29: a returned trace has explored = the size of the closed set of its
\* last snapshot, peakFrontier = the greatest frontier length of its
\* snapshots, peakClosed = the greatest closed-set size of its snapshots and
\* runtimeSteps = the number of its snapshots.
C29_Metrics ==
  pc = "returned" =>
    /\ trace.metrics.explored = Cardinality(LastStep.closed)
    /\ trace.metrics.peakFrontier
         = SetMax({Len(steps[i].frontier) : i \in 1..Len(steps)})
    /\ trace.metrics.peakClosed
         = SetMax({Cardinality(steps[i].closed) : i \in 1..Len(steps)})
    /\ trace.metrics.runtimeSteps = Len(steps)

\* a run returned whose frontier had shrunk below its peak, after three
\* expansions or more
C29_Witness ==
  /\ pc = "returned"
  /\ trace.metrics.peakFrontier >= Len(LastStep.frontier) + 2
  /\ trace.metrics.peakClosed >= 3
  /\ trace.metrics.runtimeSteps >= 10

\* the indices of the snapshots that carry a RelaxationEvent
WithRelaxation == {i \in 1..Len(steps) : "relaxation" \in DOMAIN steps[i]}

\* C30: for each of the four algorithms the relaxations metric of a
\* returned trace is the number of its snapshots that carry a
\* RelaxationEvent, and every such event has improved = true.
C30_RelaxationsCounted ==
  /\ \A i \in WithRelaxation : steps[i].relaxation.improved
  /\ pc = "returned" => trace.metrics.relaxations = Cardinality(WithRelaxation)

(***************************************************************************)
(* A MinHeap used on its own: any sequence of push and pop                 *)
(***************************************************************************)
\* no call of buildTrace has been made: its locals hold nothing
NotCalled ==
  /\ env = [kind |-> "none"]
  /\ startKey = NULL
  /\ goalKey = NULL
  /\ options = [algorithm |-> NULL]
  /\ visited = {}
  /\ closed = {}
  /\ cameFrom = EmptyMap
  /\ gScore = EmptyMap
  /\ queue = <<>>
  /\ stack = <<>>
  /\ heap = <<>>
  /\ steps = <<>>
  /\ relaxations = 0
  /\ peakFrontier = 0
  /\ peakClosed = 0
  /\ iterations = 0
  /\ selected = NoItem
  /\ nbIdx = 0
  /\ pc = "idle"
  /\ trace = NoTrace

\* the largest priority pushed
MaxPriority == 3

\* the most entries the heap holds at once
MaxHeapSize == 4

\* the ids pushed; an id may be pushed again while it is in the heap
HeapIds == {"x", "y"}

\* the entries pushed: HeapNode { id, value, priority }
HeapNodes == {[id |-> i, value |-> i, priority |-> p] : i \in HeapIds, p \in 1..MaxPriority}

\* how many times entry n sits in the array
CountIn(arr, n) == Cardinality({i \in 1..Len(arr) : arr[i] = n})

\* new MinHeap(): an empty array; the client has pushed nothing
InitHeap ==
  /\ NotCalled
  /\ primary = NoRun
  /\ ui = NoUi
  /\ edits = 0
  /\ client = [last |-> "new", pending |-> [n \in HeapNodes |-> 0], size |-> 0,
               before |-> 0, popped |-> NoNode]

\* heap.push(node)
push ==
  /\ client.last # "none"
  /\ Len(heap) < MaxHeapSize
  /\ \E n \in HeapNodes :
       /\ heap' = HeapPush(heap, n)
       /\ client' = [last |-> "push",
                     pending |-> [client.pending EXCEPT ![n] = @ + 1],
                     size |-> client.size + 1,
                     before |-> client.size,
                     popped |-> NoNode]
  /\ UNCHANGED <<env, startKey, goalKey, options, visited, closed, cameFrom,
                 gScore, steps, relaxations, peakFrontier, peakClosed, queue,
                 stack, iterations, selected, nbIdx, pc, trace, primary, ui, edits>>

\* heap.pop(), on any heap, the empty one included
pop ==
  /\ client.last # "none"
  /\ LET r == HeapPop(heap)
     IN /\ heap' = r.rest
        /\ client' = [last |-> "pop",
                      pending |-> IF r.top = NoNode
                                  THEN client.pending
                                  ELSE [client.pending EXCEPT ![r.top] = @ - 1],
                      size |-> IF r.top = NoNode THEN client.size ELSE client.size - 1,
                      before |-> client.size,
                      popped |-> r.top]
  /\ UNCHANGED <<env, startKey, goalKey, options, visited, closed, cameFrom,
                 gScore, steps, relaxations, peakFrontier, peakClosed, queue,
                 stack, iterations, selected, nbIdx, pc, trace, primary, ui, edits>>

NextHeap == push \/ pop

SpecHeap == InitHeap /\ [][NextHeap]_vars

\* C31: after any sequence of push and pop, with ids and priorities repeated,
\* the heap holds exactly the entries pushed and not yet popped; pop returns
\* null exactly when none remained, and then the heap is empty; otherwise it
\* took out exactly the entry it returned, whose priority is at most the
\* priority of every entry still in the heap.
C31_PopMinimum ==
  /\ \A n \in HeapNodes : CountIn(heap, n) = client.pending[n]
  /\ Len(heap) = client.size
  /\ client.last = "pop" =>
       /\ (client.popped = NoNode) <=> (client.before = 0)
       /\ client.popped = NoNode => heap = <<>>
       /\ client.popped # NoNode =>
            /\ client.size = client.before - 1
            /\ \A i \in 1..Len(heap) : client.popped.priority <= heap[i].priority

\* a pop returned an entry and left behind one of the same priority, two
\* entries of one id and two of one priority
C31_Witness ==
  /\ client.last = "pop"
  /\ client.popped # NoNode
  /\ \E i \in 1..Len(heap) : heap[i].priority = client.popped.priority
  /\ \E i, j \in 1..Len(heap) :
       i # j /\ heap[i].id = heap[j].id /\ heap[i].priority # heap[j].priority
  /\ \E i, j \in 1..Len(heap) :
       i # j /\ heap[i].priority = heap[j].priority /\ heap[i].id # heap[j].id

\* C33: an "exhausted" snapshot means the frontier became empty before the
\* goal was reached: in every snapshot with phase "exhausted" the frontier is
\* empty.
C33_ExhaustedEmpty ==
  \A i \in 1..Len(steps) :
    steps[i].phase = "exhausted" => Len(steps[i].frontier) = 0

(***************************************************************************)
(* Returned paths                                                          *)
(***************************************************************************)
\* the 5 x 5 grid whose row y = 2 is wall but for the gap at x = 2
GateGrid5 ==
  [kind |-> "grid",
   grid |-> [width |-> 5, height |-> 5,
             walls |-> {"0,2", "1,2", "3,2", "4,2"}]]

\* buildTrace is called on the gate grid, from 0,0 to 4,4
InitGate ==
  \E o \in {x \in AllOptions : x.heuristic = "manhattan" /\ x.heuristicWeight = 1} :
    Seed(GateGrid5, "0,0", "4,4", o) /\ CalledAlone

SpecWalk == (Init \/ InitGate) /\ [][Next]_vars

\* a and b are cells of the grid, 4-adjacent, and neither is a wall
GridStep(grid, a, b) ==
  /\ \A c \in {a, b} :
       /\ c.x >= 0 /\ c.y >= 0 /\ c.x < grid.width /\ c.y < grid.height
       /\ keyOf(c) \notin grid.walls
  /\ Abs(a.x - b.x) + Abs(a.y - b.y) = 1

\* an edge of the environment leads from a place at a to a place at b
JoinedByEdge(e, a, b) ==
  IF e.kind = "grid"
  THEN GridStep(e.grid, a, b)
  ELSE \E t \in EnvEdges(e) : coordOfKey(e, t[1]) = a /\ coordOfKey(e, t[2]) = b

\* C32: the path of a trace with found = true starts at the start's
\* coordinate, ends at the goal's, and every two consecutive entries are
\* joined by an edge of the environment (on a grid: 4-adjacent cells inside
\* the grid that are not walls); on the gate grid a path from 0,0 to 4,4
\* passes through the gap 2,2.
C32_ValidWalk ==
  (pc = "returned" /\ trace.found)
  => /\ Len(trace.path) >= 1
     /\ trace.path[1] = coordOfKey(env, startKey)
     /\ trace.path[Len(trace.path)] = coordOfKey(env, goalKey)
     /\ \A i \in 1..(Len(trace.path) - 1) :
          JoinedByEdge(env, trace.path[i], trace.path[i + 1])
     /\ (env = GateGrid5 /\ startKey = "0,0" /\ goalKey = "4,4")
        => \E i \in 1..Len(trace.path) : trace.path[i] = [x |-> 2, y |-> 2]

\* the A* run (manhattan, weight 1) on the gate grid has returned its path
C32_Witness ==
  /\ pc = "returned"
  /\ trace.found
  /\ env = GateGrid5
  /\ options = [algorithm |-> "astar", heuristic |-> "manhattan", heuristicWeight |-> 1]
  /\ Len(trace.path) = 9
  /\ \E i \in 1..Len(trace.path) : trace.path[i] = [x |-> 2, y |-> 2]

(***************************************************************************)
(* The bookkeeping every snapshot shows                                    *)
(***************************************************************************)
\* C35: in every snapshot closed is a subset of visited, the key of every
\* frontier item is visited, every key of the parent map is visited and is
\* not the start key, every value of the parent map is closed, and every key
\* of the cost map is visited.
C35_Containment ==
  \A i \in 1..Len(steps) :
    LET sn == steps[i]
    IN /\ sn.closed \subseteq sn.visited
       /\ \A j \in 1..Len(sn.frontier) : sn.frontier[j].key \in sn.visited
       /\ DOMAIN sn.cameFrom \subseteq sn.visited
       /\ startKey \notin DOMAIN sn.cameFrom
       /\ \A k \in DOMAIN sn.cameFrom : sn.cameFrom[k] \in sn.closed
       /\ DOMAIN sn.gScore \subseteq sn.visited

\* a snapshot with closed keys, two frontier items, three parent links and a
\* recorded cost for a key other than the start, in a graph where an edge
\* leads back to the start
C35_Witness ==
  /\ \E t \in EnvEdges(env) : t[2] = startKey
  /\ \E i \in 1..Len(steps) :
       /\ Cardinality(steps[i].closed) >= 2
       /\ Len(steps[i].frontier) >= 2
       /\ Cardinality(DOMAIN steps[i].cameFrom) >= 3
       /\ \E k \in DOMAIN steps[i].gScore : k # startKey

\* following the links from k leads to the start and meets no key of seen,
\* nor any key twice
RECURSIVE ClimbsToStart(_, _, _)
ClimbsToStart(links, k, seen) ==
  IF k \in seen
  THEN FALSE
  ELSE IF k = startKey
       THEN TRUE
       ELSE IF k \notin DOMAIN links
            THEN FALSE
            ELSE ClimbsToStart(links, links[k], seen \cup {k})

\* C36: in every snapshot, following parent links from any key of the parent
\* map reaches the start key without repeating a key, and from one snapshot to
\* the next a key that is closed stays closed and keeps its parent link.
C36_ParentTree ==
  /\ \A i \in 1..Len(steps) :
       \A k \in DOMAIN steps[i].cameFrom : ClimbsToStart(steps[i].cameFrom, k, {})
  /\ \A i \in 1..(Len(steps) - 1) :
       \A k \in steps[i].closed :
         /\ k \in steps[i + 1].closed
         /\ IF k \in DOMAIN steps[i].cameFrom
            THEN /\ k \in DOMAIN steps[i + 1].cameFrom
                 /\ steps[i + 1].cameFrom[k] = steps[i].cameFrom[k]
            ELSE k \notin DOMAIN steps[i + 1].cameFrom

\* the for-loop of a Dijkstra or A* run stands at a neighbour that is closed,
\* has a parent link, and would get a lower cost through the key being
\* expanded
C36_Witness ==
  /\ HeapRun
  /\ pc = "neighbors"
  /\ NeighborAt.key \in closed
  /\ NeighborAt.key \in DOMAIN cameFrom
  /\ selected.key \in DOMAIN cameFrom
  /\ gScore[selected.key] + EdgeCostAt < gScore[NeighborAt.key]

\* the keys snapshot sn shows as discovered and still waiting: visited, not
\* closed and not the key the snapshot selects
Waiting(sn) == (sn.visited \ sn.closed) \ {sn.currentKey}

\* C37: in a Dijkstra or A* run, at every "select" snapshot, every key that
\* is visited, not closed and not the selected key has a frontier entry whose
\* g is the best-known cost recorded for the key.
C37_NoneLost ==
  HeapRun =>
    \A i \in 1..Len(steps) :
      steps[i].phase = "select" =>
        \A k \in Waiting(steps[i]) :
          /\ k \in DOMAIN steps[i].gScore
          /\ \E j \in 1..Len(steps[i].frontier) :
               /\ steps[i].frontier[j].key = k
               /\ steps[i].frontier[j].g = steps[i].gScore[k]

\* a "select" snapshot at which a waiting key has a superseded entry in the
\* frontier next to its current one
C37_Witness ==
  /\ HeapRun
  /\ \E i \in 2..Len(steps) :
       /\ steps[i].phase = "select"
       /\ \E k \in Waiting(steps[i]) :
            \E j \in 1..Len(steps[i].frontier) :
              /\ steps[i].frontier[j].key = k
              /\ steps[i].frontier[j].g > steps[i].gScore[k]

(***************************************************************************)
(* src/src/ui/state/simulator.ts and the App that drives it                *)
(* (src/unnamed/part_006). The state is the record ui. A field that holds  *)
(* null or an object holds a record with the flag null here. Left out are  *)
(* the fields that neither buildTrace nor the playback index reads         *)
(* (drawMode, speedMs, learningLevel, explainMode,                         *)
(* customExplanationPoints), the actions that only set them, and the       *)
(* real-world map, which needs a route service.                            *)
(***************************************************************************)
\* the columns and rows of the catalog's grid, which is 28 x 18 in the
\* source; its default start 2,2 and goal 24,14 become the first and the
\* last cell
UiWidth == 2

UiHeight == 2

\* emptyGrid
emptyGrid(width, height) == [width |-> width, height |-> height, walls |-> {}]

\* setWall
setWall(grid, c, on) ==
  [grid EXCEPT !.walls = IF on THEN @ \cup {keyOf(c)} ELSE @ \ {keyOf(c)}]

\* { directed: true, nodes: [], edges: [] }
EmptyGraph == [directed |-> TRUE, nodes |-> <<>>, edges |-> <<>>]

\* getEnvironment, for the ids "grid" and "custom"
getEnvironment(id, customGraph) ==
  IF id = "custom"
  THEN [id |-> id, kind |-> "graph", graph |-> customGraph,
        defaultStartKey |-> IF Len(customGraph.nodes) > 0
                            THEN customGraph.nodes[1].id ELSE "A",
        defaultGoalKey |-> IF Len(customGraph.nodes) > 1
                           THEN customGraph.nodes[2].id ELSE "B"]
  ELSE [id |-> "grid", kind |-> "grid", grid |-> emptyGrid(UiWidth, UiHeight),
        defaultStartKey |-> keyOf([x |-> 0, y |-> 0]),
        defaultGoalKey |-> keyOf([x |-> UiWidth - 1, y |-> UiHeight - 1])]

\* null, in a field that holds a Trace or an AlgorithmDNA otherwise
Null == [null |-> TRUE]

\* DEFAULT_SIM
DEFAULT_SIM ==
  [environmentId |-> "grid",
   grid |-> getEnvironment("grid", EmptyGraph).grid,
   customGraph |-> EmptyGraph,
   startKey |-> getEnvironment("grid", EmptyGraph).defaultStartKey,
   goalKey |-> getEnvironment("grid", EmptyGraph).defaultGoalKey,
   algorithm |-> "astar",
   compareOn |-> FALSE,
   compareAlgorithm |-> "dijkstra",
   heuristic |-> "manhattan",
   heuristicWeight |-> 1,
   isPlaying |-> FALSE,
   trace |-> Null,
   dna |-> Null,
   compareTrace |-> Null,
   compareDna |-> Null,
   stepIndex |-> 0]

\* a clamp without its upper end
clampFromBelow(n, lo, hi) == Max(lo, n)

\* clamp
clamp(n, lo, hi) == Max(lo, Min(hi, n))

\* a resetPlayback that pauses and leaves the index where it is
resetPlaybackOnlyPauses(state) == [state EXCEPT !.isPlaying = FALSE]

\* resetPlayback
resetPlayback(state) == [state EXCEPT !.isPlaying = FALSE, !.stepIndex = 0]

\* { ...state, trace: null, dna: null, compareTrace: null, compareDna: null }
WithoutTraces(state) ==
  [state EXCEPT !.trace = Null, !.dna = Null,
                !.compareTrace = Null, !.compareDna = Null]

\* some((n) => n.id === key)
HasNode(graph, key) == \E i \in 1..Len(graph.nodes) : graph.nodes[i].id = key

\* a "step" case that never turns the playback off
StepCaseKeepsPlaying(state, direction) ==
  IF state.trace.null
  THEN state
  ELSE LET last == Len(state.trace.steps) - 1
           next == clamp(state.stepIndex + direction, 0, last)
       IN [state EXCEPT !.stepIndex = next]

\* the "step" case of the reducer
StepCase(state, direction) ==
  IF state.trace.null
  THEN state
  ELSE LET last == Len(state.trace.steps) - 1
           next == clamp(state.stepIndex + direction, 0, last)
           stopAtEnd == direction = 1 /\ next = last
       IN [state EXCEPT !.stepIndex = next,
                        !.isPlaying = IF stopAtEnd THEN FALSE ELSE @]

\* the "setEnvironment" case of the reducer
SetEnvironmentCase(state, environmentId) ==
  LET e == getEnvironment(environmentId, state.customGraph)
      nextGrid == IF e.kind = "grid" THEN e.grid ELSE state.grid
      customGraph == IF environmentId = "custom" THEN state.customGraph
                     ELSE EmptyGraph
  IN resetPlayback(
       [WithoutTraces(state) EXCEPT
          !.environmentId = environmentId,
          !.grid = nextGrid,
          !.customGraph = customGraph,
          !.startKey = IF environmentId = "custom" /\ Len(customGraph.nodes) > 0
                       THEN customGraph.nodes[1].id
                       ELSE e.defaultStartKey,
          !.goalKey = IF environmentId = "custom" /\ Len(customGraph.nodes) > 1
                      THEN customGraph.nodes[2].id
                      ELSE e.defaultGoalKey])

\* the "setCustomGraph" case of the reducer
SetCustomGraphCase(state, graph) ==
  resetPlayback(
    [WithoutTraces(state) EXCEPT
       !.customGraph = graph,
       !.startKey = IF Len(graph.nodes) > 0
                    THEN (IF HasNode(graph, @) THEN @ ELSE graph.nodes[1].id)
                    ELSE @,
       !.goalKey = IF Len(graph.nodes) > 1
                   THEN (IF HasNode(graph, @) THEN @ ELSE graph.nodes[2].id)
                   ELSE @])

\* the "applyEdit" case of the reducer
ApplyEditCase(state, edit) ==
  LET base == [WithoutTraces(state) EXCEPT !.isPlaying = FALSE, !.stepIndex = 0]
  IN IF edit.kind = "wall"
     THEN IF state.environmentId # "grid"
          THEN base
          ELSE IF edit.key = state.startKey \/ edit.key = state.goalKey
               THEN base
               ELSE [base EXCEPT !.grid = setWall(state.grid, coordOf(edit.key), edit.on)]
     ELSE IF edit.kind = "start"
          THEN IF edit.key = state.goalKey
               THEN base
               ELSE IF state.environmentId = "grid"
                    THEN [base EXCEPT !.startKey = edit.key,
                                      !.grid = setWall(state.grid, coordOf(edit.key), FALSE)]
                    ELSE [base EXCEPT !.startKey = edit.key]
          ELSE IF edit.key = state.startKey
               THEN base
               ELSE IF state.environmentId = "grid"
                    THEN [base EXCEPT !.goalKey = edit.key,
                                      !.grid = setWall(state.grid, coordOf(edit.key), FALSE)]
                    ELSE [base EXCEPT !.goalKey = edit.key]

\* the "randomWalls" case of the reducer; draws holds the cells for which
\* Math.random() < density came out true
RandomWallsCase(state, draws) ==
  IF state.environmentId # "grid"
  THEN resetPlayback(WithoutTraces(state))
  ELSE LET walls == {k \in GridCells(state.grid.width, state.grid.height) :
                       /\ k # state.startKey
                       /\ k # state.goalKey
                       /\ k \in draws}
       IN resetPlayback([WithoutTraces(state) EXCEPT !.grid.walls = walls])

\* simulatorReducer
simulatorReducer(state, action) ==
  CASE action.type = "hydrateAfterRun" -> action.next
    [] action.type = "run" -> state
    [] action.type = "resetTrace" ->
         [WithoutTraces(state) EXCEPT !.isPlaying = FALSE, !.stepIndex = 0]
    [] action.type = "togglePlay" ->
         IF state.trace.null THEN state
         ELSE [state EXCEPT !.isPlaying = ~state.isPlaying]
    [] action.type = "step" -> StepCase(state, action.direction)
    [] action.type = "setEnvironment" ->
         SetEnvironmentCase(state, action.environmentId)
    [] action.type = "setCustomGraph" -> SetCustomGraphCase(state, action.graph)
    [] action.type = "setAlgorithm" ->
         resetPlayback([WithoutTraces(state) EXCEPT !.algorithm = action.algorithm])
    [] action.type = "setCompareOn" ->
         resetPlayback([WithoutTraces(state) EXCEPT !.compareOn = action.on])
    [] action.type = "setCompareAlgorithm" ->
         resetPlayback([WithoutTraces(state) EXCEPT
                          !.compareAlgorithm = action.algorithm])
    [] action.type = "setHeuristic" ->
         resetPlayback([WithoutTraces(state) EXCEPT !.heuristic = action.heuristic])
    [] action.type = "setHeuristicWeight" ->
         resetPlayback([WithoutTraces(state) EXCEPT
                          !.heuristicWeight = clamp(action.weight, 0, 10)])
    [] action.type = "applyEdit" -> ApplyEditCase(state, action.edit)
    [] action.type = "clearWalls" ->
         resetPlayback([WithoutTraces(state) EXCEPT
                          !.grid = IF state.environmentId = "grid"
                                   THEN [@ EXCEPT !.walls = {}] ELSE @])
    [] action.type = "randomWalls" -> RandomWallsCase(state, action.draws)
    [] OTHER -> state

\* computeAlgorithmDNA: of the DNA only the tradeoff is kept here
computeAlgorithmDNA(t, algorithm) ==
  [null |-> FALSE,
   tradeoff |-> CASE algorithm = "bfs" -> "memory"
                  [] algorithm = "dfs" -> "speed"
                  [] algorithm = "dijkstra" -> "accuracy"
                  [] OTHER -> IF t.options.heuristicWeight > 1
                              THEN "speed" ELSE "balanced"]

\* the locals of buildTrace and of runOnce
EngineVars ==
  <<env, startKey, goalKey, options, visited, closed, cameFrom, gScore, steps,
    relaxations, peakFrontier, peakClosed, queue, stack, heap, iterations,
    selected, nbIdx, pc, trace, primary>>

\* the most settings the user changes after the App is mounted
MaxEdits == 2

\* no run is under way: runOnce is synchronous
Idle == pc = "idle"

\* dispatch(action) of an action that changes no setting
Dispatch(action) ==
  /\ ui' = simulatorReducer(ui, action)
  /\ UNCHANGED <<EngineVars, edits, client>>

\* dispatch(action) of an action of the controls and the canvas
DispatchEdit(action) ==
  /\ edits < MaxEdits
  /\ edits' = edits + 1
  /\ ui' = simulatorReducer(ui, action)
  /\ UNCHANGED <<EngineVars, client>>

\* the env of runOnce: the catalog's environment, with the state's grid in
\* place of the catalog's empty one
RunEnv(state) ==
  LET baseEnv == getEnvironment(state.environmentId, state.customGraph)
  IN IF baseEnv.kind = "grid"
     THEN [kind |-> "grid", grid |-> state.grid]
     ELSE [kind |-> "graph", graph |-> baseEnv.graph]

\* the options runOnce passes to buildTrace
RunOptions(state, algorithm) ==
  [algorithm |-> algorithm, heuristic |-> state.heuristic,
   heuristicWeight |-> state.heuristicWeight]

\* Math.sqrt is exact on every distance a run with options o asks for
Computable(state, o) ==
  o.algorithm = "astar" => SqrtExact(RunEnv(state), state.goalKey, o)

\* buildTrace(e, s, g, o) is entered: its seed
Call(e, s, g, o) ==
  LET v == SeedValues(e, s, g, o)
  IN /\ env' = e
     /\ startKey' = s
     /\ goalKey' = g
     /\ options' = o
     /\ visited' = v.visited
     /\ closed' = v.closed
     /\ cameFrom' = v.cameFrom
     /\ gScore' = v.gScore
     /\ queue' = v.queue
     /\ stack' = v.stack
     /\ heap' = v.heap
     /\ steps' = v.steps
     /\ relaxations' = 0
     /\ peakFrontier' = v.peakFrontier
     /\ peakClosed' = 0
     /\ iterations' = 0
     /\ selected' = NoItem
     /\ nbIdx' = 0
     /\ pc' = "loop"
     /\ trace' = NoTrace

\* the Trace buildTrace has returned, with the arguments of the call
Returned ==
  [null |-> FALSE, options |-> options, steps |-> steps, found |-> trace.found,
   path |-> trace.path, metrics |-> trace.metrics,
   input |-> [env |-> env, startKey |-> startKey, goalKey |-> goalKey]]

\* enhancedDispatch({ type: "run" }): runOnce calls buildTrace on the state
Run ==
  /\ Idle
  /\ Computable(ui, RunOptions(ui, ui.algorithm))
  /\ ui.compareOn => Computable(ui, RunOptions(ui, ui.compareAlgorithm))
  /\ Call(RunEnv(ui), ui.startKey, ui.goalKey, RunOptions(ui, ui.algorithm))
  /\ primary' = NoRun
  /\ UNCHANGED <<ui, edits, client>>

\* runOnce with compareOn: the second buildTrace call, on compareAlgorithm
RunCompare ==
  /\ pc = "returned"
  /\ ui.compareOn
  /\ ~primary.kept
  /\ primary' = [kept |-> TRUE, trace |-> Returned]
  /\ Call(env, startKey, goalKey, RunOptions(ui, ui.compareAlgorithm))
  /\ UNCHANGED <<ui, edits, client>>

\* the state runOnce returns
runOnce ==
  LET t == IF primary.kept THEN primary.trace ELSE Returned
      c == IF primary.kept THEN Returned ELSE Null
  IN [ui EXCEPT !.trace = t,
                !.dna = computeAlgorithmDNA(t, ui.algorithm),
                !.compareTrace = c,
                !.compareDna = IF c.null THEN Null
                               ELSE computeAlgorithmDNA(c, ui.compareAlgorithm),
                !.stepIndex = 0,
                !.isPlaying = FALSE]

\* dispatch({ type: "hydrateAfterRun", next }); the locals of the run are gone
HydrateAfterRun ==
  /\ pc = "returned"
  /\ ui.compareOn => primary.kept
  /\ ui' = simulatorReducer(ui, [type |-> "hydrateAfterRun", next |-> runOnce])
  /\ env' = [kind |-> "none"]
  /\ startKey' = NULL
  /\ goalKey' = NULL
  /\ options' = [algorithm |-> NULL]
  /\ visited' = {}
  /\ closed' = {}
  /\ cameFrom' = EmptyMap
  /\ gScore' = EmptyMap
  /\ queue' = <<>>
  /\ stack' = <<>>
  /\ heap' = <<>>
  /\ steps' = <<>>
  /\ relaxations' = 0
  /\ peakFrontier' = 0
  /\ peakClosed' = 0
  /\ iterations' = 0
  /\ selected' = NoItem
  /\ nbIdx' = 0
  /\ pc' = "idle"
  /\ trace' = NoTrace
  /\ primary' = NoRun
  /\ UNCHANGED <<edits, client>>

\* the environments the user picks
UiEnvironments == {"grid", "custom"}

\* the algorithms the user picks for the main run and for the comparison
UiAlgorithms == {"bfs", "astar"}

UiCompareAlgorithms == {"dijkstra", "dfs"}

\* the weights the slider sends; the last one is out of range
UiWeights == {1, 11}

\* the cell the user clicks on the grid
ClickedCells == {"1,0"}

\* the graph the user draws in the custom map builder
DrawnGraph ==
  [directed |-> TRUE,
   nodes |-> <<[id |-> "A", at |-> [x |-> 0, y |-> 0]],
               [id |-> "B", at |-> [x |-> 2, y |-> 0]],
               [id |-> "C", at |-> [x |-> 1, y |-> 0]]>>,
   edges |-> <<[from |-> "A", to |-> "B", cost |-> 3],
               [from |-> "A", to |-> "C", cost |-> 1],
               [from |-> "C", to |-> "B", cost |-> 1]>>]

\* the keys the user clicks in the environment on show
ClickedKeys ==
  IF ui.environmentId = "grid"
  THEN ClickedCells
  ELSE {ui.customGraph.nodes[i].id : i \in 1..Len(ui.customGraph.nodes)}

ResetTrace ==
  /\ Idle
  /\ Dispatch([type |-> "resetTrace"])

TogglePlay ==
  /\ Idle
  /\ Dispatch([type |-> "togglePlay"])

\* the step buttons
Step ==
  /\ Idle
  /\ \E d \in {-1, 1} : Dispatch([type |-> "step", direction |-> d])

\* the playback interval of the App: it runs while isPlaying and a trace
\* is there
Tick ==
  /\ Idle
  /\ ui.isPlaying
  /\ ~ui.trace.null
  /\ Dispatch([type |-> "step", direction |-> 1])

SetEnvironment ==
  /\ Idle
  /\ \E id \in UiEnvironments :
       DispatchEdit([type |-> "setEnvironment", environmentId |-> id])

\* the custom map builder is on show in the custom environment only
SetCustomGraph ==
  /\ Idle
  /\ ui.environmentId = "custom"
  /\ DispatchEdit([type |-> "setCustomGraph", graph |-> DrawnGraph])

SetAlgorithm ==
  /\ Idle
  /\ \E a \in UiAlgorithms :
       DispatchEdit([type |-> "setAlgorithm", algorithm |-> a])

SetCompareOn ==
  /\ Idle
  /\ \E on \in BOOLEAN : DispatchEdit([type |-> "setCompareOn", on |-> on])

SetCompareAlgorithm ==
  /\ Idle
  /\ \E a \in UiCompareAlgorithms :
       DispatchEdit([type |-> "setCompareAlgorithm", algorithm |-> a])

SetHeuristic ==
  /\ Idle
  /\ \E h \in Heuristics :
       DispatchEdit([type |-> "setHeuristic", heuristic |-> h])

SetHeuristicWeight ==
  /\ Idle
  /\ \E w \in UiWeights :
       DispatchEdit([type |-> "setHeuristicWeight", weight |-> w])

ApplyEdit ==
  /\ Idle
  /\ \E k \in ClickedKeys :
       \/ \E on \in BOOLEAN :
            DispatchEdit([type |-> "applyEdit",
                          edit |-> [kind |-> "wall", key |-> k, on |-> on]])
       \/ \E kind \in {"start", "goal"} :
            DispatchEdit([type |-> "applyEdit",
                          edit |-> [kind |-> kind, key |-> k]])

ClearWalls ==
  /\ Idle
  /\ DispatchEdit([type |-> "clearWalls"])

RandomWalls ==
  /\ Idle
  /\ \E draws \in SUBSET ClickedCells :
       DispatchEdit([type |-> "randomWalls", draws |-> draws])

\* the App is mounted on DEFAULT_SIM
InitUi ==
  /\ NotCalled
  /\ primary = NoRun
  /\ client = NoClient
  /\ edits = 0
  /\ ui = DEFAULT_SIM

\* what the user's hand and a run in progress do
Manual ==
  \/ Run
  \/ Select
  \/ Expand
  \/ Neighbor
  \/ Finish
  \/ RunCompare
  \/ HydrateAfterRun
  \/ ResetTrace
  \/ TogglePlay
  \/ Step
  \/ SetEnvironment
  \/ SetCustomGraph
  \/ SetAlgorithm
  \/ SetCompareOn
  \/ SetCompareAlgorithm
  \/ SetHeuristic
  \/ SetHeuristicWeight
  \/ ApplyEdit
  \/ ClearWalls
  \/ RandomWalls

NextUi == Manual \/ Tick

SpecUi == InitUi /\ [][NextUi]_vars

(***************************************************************************)
(* Claims about the reducer and the playback                               *)
(***************************************************************************)
\* the settings a run reads
Settings(state) ==
  <<state.environmentId, state.grid.walls, state.startKey, state.goalKey,
    state.algorithm, state.compareOn, state.compareAlgorithm, state.heuristic,
    state.heuristicWeight>>

\* no trace is on show and the playback is at rest
Cleared(state) ==
  /\ state.trace.null
  /\ state.dna.null
  /\ state.compareTrace.null
  /\ state.compareDna.null
  /\ state.stepIndex = 0
  /\ ~state.isPlaying

\* trace t was built by a call on what the state holds now, with algorithm a
BuiltFrom(t, state, a) ==
  /\ t.input = [env |-> RunEnv(state), startKey |-> state.startKey,
                goalKey |-> state.goalKey]
  /\ t.options = RunOptions(state, a)

\* the traces on show were built from the settings on show
UpToDate ==
  /\ ~ui.trace.null => BuiltFrom(ui.trace, ui, ui.algorithm)
  /\ ~ui.compareTrace.null =>
       /\ ~ui.trace.null
       /\ ui.compareOn
       /\ BuiltFrom(ui.compareTrace, ui, ui.compareAlgorithm)
  /\ ui.dna.null <=> ui.trace.null
  /\ ui.compareDna.null <=> ui.compareTrace.null

\* a step that changes a setting leaves no trace and a playback at rest
EditInvalidates == Settings(ui') # Settings(ui) => Cleared(ui')

LastIndex(t) == Len(t.steps) - 1

\* a "step" action in either direction takes ui to ui'
IsStep == \E d \in {-1, 1} : ui' = simulatorReducer(ui, [type |-> "step", direction |-> d])

\* a step that a "step" action explains changes stepIndex and isPlaying only
StepKeepsTrace ==
  (Idle /\ IsStep) =>
    [ui' EXCEPT !.stepIndex = ui.stepIndex, !.isPlaying = ui.isPlaying] = ui

\* C38: whenever trace is not null, 0 <= stepIndex <= trace.steps.length - 1,
\* and a "step" action changes stepIndex and isPlaying only, never the trace.
C38_IndexInRange ==
  /\ [](~ui.trace.null =>
          /\ Len(ui.trace.steps) >= 1
          /\ 0 <= ui.stepIndex
          /\ ui.stepIndex <= LastIndex(ui.trace))
  /\ [][StepKeepsTrace]_vars

\* the playback stands at the last snapshot of a trace of more than three
\* snapshots, where a further step forward is clamped
C38_Witness ==
  /\ Idle
  /\ ~ui.trace.null
  /\ Len(ui.trace.steps) > 3
  /\ ui.stepIndex = LastIndex(ui.trace)

\* C39: whenever compareTrace is not null, the shared stepIndex satisfies
\* 0 <= stepIndex <= compareTrace.steps.length - 1.
C39_CompareIndexInRange ==
  ~ui.compareTrace.null =>
    /\ 0 <= ui.stepIndex
    /\ ui.stepIndex <= LastIndex(ui.compareTrace)

(***************************************************************************)
(* Auto-play left alone: while the interval runs nothing but its ticks     *)
(* happens, and setInterval keeps firing as long as it is not cleared.     *)
(***************************************************************************)
\* the playback interval is set
Playing == Idle /\ ui.isPlaying /\ ~ui.trace.null

\* the playback has come to rest on the last snapshot
Stopped == Idle /\ ~ui.trace.null /\ ~ui.isPlaying /\ ui.stepIndex = LastIndex(ui.trace)

NextAuto == Tick \/ (~Playing /\ Manual)

SpecAutoPlay == InitUi /\ [][NextAuto]_vars /\ WF_vars(Tick)

\* a tick moves one snapshot forward, not past the last, turns the playback
\* off exactly when it lands on the last snapshot, and keeps the trace
TickAdvances ==
  Playing =>
    /\ ui'.trace = ui.trace
    /\ ui'.stepIndex = Min(ui.stepIndex + 1, LastIndex(ui.trace))
    /\ ui'.isPlaying = (ui'.stepIndex # LastIndex(ui.trace))
    /\ Idle'

\* a "step" forward taken on the last snapshot stays there, playback off
RestsAtEnd ==
  (~ui.trace.null /\ ui.stepIndex = LastIndex(ui.trace)) =>
    LET after == simulatorReducer(ui, [type |-> "step", direction |-> 1])
    IN after.stepIndex = ui.stepIndex /\ ~after.isPlaying

\* C40: from a state with a trace and isPlaying = true, with only the timer's
\* ticks occurring, stepIndex eventually equals trace.steps.length - 1 with
\* isPlaying false; each tick advances by one without passing the last
\* snapshot and the tick that reaches or repeats the last index turns
\* isPlaying off; a further forward step leaves stepIndex where it is.
C40_AutoPlayStops ==
  /\ Playing ~> Stopped
  /\ [][TickAdvances]_vars
  /\ [](RestsAtEnd)

\* the playback runs and is still more than two snapshots from the end
C40_Witness ==
  /\ Playing
  /\ ui.stepIndex > 0
  /\ ui.stepIndex + 2 < LastIndex(ui.trace)

====
